---- MODULE Spec2Model ----
(***************************************************************************)
(* Model of the service supervisor of TokenRingApp (src/TokenRingApp.ts).  *)
(*                                                                         *)
(* run() is an async function with three awaited Promise.all calls: the    *)
(* start phase, the per-service run loops and the stop phase.  Each await  *)
(* is a suspension point, so the hooks of the services (start, run, stop)  *)
(* complete in any order and shutdown() may be called between any two      *)
(* steps.  The synchronous stretches between two awaits are one action.    *)
(***************************************************************************)
EXTENDS Naturals, FiniteSets, Sequences, TLC

\* Number of services.
NumServices == 2

\* The model follows every run loop through its first MaxCount invocations of
\* service.run: a loop that has used them up stays in its backoff wait until
\* the token is signaled.
MaxCount == 2

Services == 1..NumServices

NoError == <<"none", 0>>

VARIABLES
    hasRun,       \* hasRun[s]:   service s defines run(signal)
    hasStop,      \* hasStop[s]:  service s defines stop()
    aborted,      \* abortController.signal.aborted
    phase,        \* position of run(): "idle" (not called), "start", "run",
                  \* "stop" (inside the three Promise.all), "resolved", "rejected"
    rejectedBy,   \* the error run() rejected with: <<hook, service>>
    startSt,      \* per service, the start wrapper: "idle", "pending", "done", "failed"
    loopSt,       \* per service, the run loop: "idle", "running" (inside
                  \* service.run), "backoff" (inside setTimeout), "exited"
    stopSt,       \* per service, the stop wrapper: "idle", "pending", "done", "failed"
    runCalls,     \* per service, invocations of service.run so far
    stopCalls,    \* per service, invocations of service.stop so far
    errLogs,      \* per service, "died with error" entries of app.logs
    exitLogs,     \* per service, "exited unexpectedly" entries of app.logs
    lastOutcome,  \* per service, how its latest finished run() ended:
                  \* "none", "returned", "threw"
    profile       \* per service, the behaviour of its run() so far: "none" (no
                  \* run() finished), "once" (the first threw, every later
                  \* one returned), "other"

\* The state of the supervisor.
appVars == <<hasRun, hasStop, aborted, phase, rejectedBy, startSt, loopSt,
             stopSt, runCalls, stopCalls, errLogs, exitLogs, lastOutcome, profile>>

\* Number of plugins in the batch handed to installPlugins.
BatchLen == 3

\* Number of plugins in the registry when reconfigurePlugins is called.
RegLen == 2

\* Number of callbacks handed to subscribe.
NumCallbacks == 2

\* Number of mutateState calls.
MaxMutations == 2

\* Number of initializeState calls, each constructing a slice instance.
MaxInstances == 2

VARIABLES
    pluginManager,  \* the PluginManager, its plugins and its calls in progress
                    \* (a record, see NewPluginManager), or Absent
    stateManager    \* the StateManager, its callers and its queued jobs (a
                    \* record, see NewStateManager), or Absent

\* What the supervisor leaves alone.
other == <<pluginManager, stateManager>>

vars == <<appVars, other>>

\* A component that is not constructed.
Absent == <<>>

caps == <<hasRun, hasStop>>

\* this.services.getItems(): the registered services.
GetItems == DOMAIN hasRun

\* The services the map of a phase went over, st being the states of the
\* wrappers of the phase.
Enumerated(st) == {s \in Services : st[s] # "idle"}

\* The optional hooks of service s, as a number.
CapCode(s) == (IF hasRun[s] THEN 2 ELSE 0) + (IF hasStop[s] THEN 1 ELSE 0)

\* The state after construction and addServices(...): nothing has run, the
\* token is unsignaled, the log is empty.  Every hook is optional.  run()
\* treats all services alike (each phase is a Promise.all over a map), so
\* every registry is a permutation of one listed by ascending CapCode.
Init ==
    /\ hasRun \in [Services -> BOOLEAN]
    /\ hasStop \in [Services -> BOOLEAN]
    /\ \A s, t \in Services : s < t => CapCode(s) <= CapCode(t)
    /\ aborted = FALSE
    /\ phase = "idle"
    /\ rejectedBy = NoError
    /\ startSt = [s \in Services |-> "idle"]
    /\ loopSt = [s \in Services |-> "idle"]
    /\ stopSt = [s \in Services |-> "idle"]
    /\ runCalls = [s \in Services |-> 0]
    /\ stopCalls = [s \in Services |-> 0]
    /\ errLogs = [s \in Services |-> 0]
    /\ exitLogs = [s \in Services |-> 0]
    /\ lastOutcome = [s \in Services |-> "none"]
    /\ profile = [s \in Services |-> "none"]
    /\ pluginManager = Absent
    /\ stateManager = Absent

\* shutdown(reason): abort() is idempotent.
Shutdown ==
    /\ aborted' = TRUE
    /\ UNCHANGED <<other, caps, phase, rejectedBy, startSt, loopSt, stopSt, runCalls,
                   stopCalls, errLogs, exitLogs, lastOutcome, profile>>

\* run() is called: the map of the start phase invokes start(signal) on every
\* registered service that has one, and its wrapper is pending; the wrapper
\* of a service without start (`service.start?.(signal)`) is done.
RunCall ==
    /\ phase = "idle"
    /\ phase' = "start"
    /\ startSt' \in {f \in [Services -> {"idle", "pending", "done"}] :
                        Enumerated(f) = GetItems}
    /\ UNCHANGED <<other, caps, aborted, rejectedBy, loopSt, stopSt, runCalls, stopCalls,
                   errLogs, exitLogs, lastOutcome, profile>>

\* start(signal) of service s completes.
StartReturn(s) ==
    /\ startSt[s] = "pending"
    /\ startSt' = [startSt EXCEPT ![s] = "done"]
    /\ UNCHANGED <<other, caps, aborted, phase, rejectedBy, loopSt, stopSt, runCalls,
                   stopCalls, errLogs, exitLogs, lastOutcome, profile>>

StartFail_Swallowed(s) ==
    /\ startSt[s] = "pending"
    /\ startSt' = [startSt EXCEPT ![s] = "failed"]
    /\ UNCHANGED <<other, caps, aborted, phase, rejectedBy, loopSt, stopSt, runCalls,
                   stopCalls, errLogs, exitLogs, lastOutcome, profile>>

\* Mutant: the failure signals the token.
StartFail_Cancels(s) ==
    /\ startSt[s] = "pending"
    /\ startSt' = [startSt EXCEPT ![s] = "failed"]
    /\ aborted' = TRUE
    /\ IF phase = "start"
       THEN phase' = "rejected" /\ rejectedBy' = <<"start", s>>
       ELSE UNCHANGED <<phase, rejectedBy>>
    /\ UNCHANGED <<other, caps, loopSt, stopSt, runCalls, stopCalls, errLogs,
                   exitLogs, lastOutcome, profile>>

\* start(signal) of service s fails: Promise.all rejects with the first
\* failure and so does run(); the other starts keep going, unobserved.
StartFail(s) ==
    /\ startSt[s] = "pending"
    /\ startSt' = [startSt EXCEPT ![s] = "failed"]
    /\ IF phase = "start"
       THEN phase' = "rejected" /\ rejectedBy' = <<"start", s>>
       ELSE UNCHANGED <<phase, rejectedBy>>
    /\ UNCHANGED <<other, caps, aborted, loopSt, stopSt, runCalls, stopCalls, errLogs,
                   exitLogs, lastOutcome, profile>>

AllStarted_Any == \E s \in Services : startSt[s] = "done"

\* The first Promise.all is fulfilled.
AllStarted == \A s \in Enumerated(startSt) : startSt[s] = "done"

\* The start phase is over: the map of the run phase enters the loop of
\* every registered service.  A service without run returns at once;
\* `while (!signal.aborted)` lets a loop in only while the token is
\* unsignaled, and then service.run is invoked.
EnterLoops ==
    /\ phase = "start"
    /\ AllStarted
    /\ phase' = "run"
    /\ loopSt' = [s \in Services |->
                    IF s \notin GetItems THEN "idle"
                    ELSE IF hasRun[s] /\ ~aborted THEN "running" ELSE "exited"]
    /\ runCalls' = [s \in Services |->
                    IF s \in GetItems /\ hasRun[s] /\ ~aborted
                    THEN runCalls[s] + 1 ELSE runCalls[s]]
    /\ UNCHANGED <<other, caps, aborted, rejectedBy, startSt, stopSt, stopCalls, errLogs,
                   exitLogs, lastOutcome, profile>>

\* What the latest outcome makes of the behaviour of run() so far.
NextProfile(p, outcome) ==
    CASE p = "none" -> IF outcome = "threw" THEN "once" ELSE "other"
      [] p = "once" -> IF outcome = "returned" THEN "once" ELSE "other"
      [] OTHER -> "other"

AfterRun_NoRetry == "exited"

\* After run() has ended: `if (signal.aborted) break`, else the backoff wait.
AfterRun == IF aborted THEN "exited" ELSE "backoff"

\* service.run(signal) of s returns normally: logged as an unexpected exit
\* when the token is unsignaled.
RunReturn(s) ==
    /\ loopSt[s] = "running"
    /\ exitLogs' = [exitLogs EXCEPT ![s] = IF aborted THEN @ ELSE @ + 1]
    /\ loopSt' = [loopSt EXCEPT ![s] = AfterRun]
    /\ lastOutcome' = [lastOutcome EXCEPT ![s] = "returned"]
    /\ profile' = [profile EXCEPT ![s] = NextProfile(profile[s], "returned")]
    /\ UNCHANGED <<other, caps, aborted, phase, rejectedBy, startSt, stopSt, runCalls,
                   stopCalls, errLogs>>

RunThrow_Silent(s) ==
    /\ loopSt[s] = "running"
    /\ loopSt' = [loopSt EXCEPT ![s] = AfterRun]
    /\ lastOutcome' = [lastOutcome EXCEPT ![s] = "threw"]
    /\ profile' = [profile EXCEPT ![s] = NextProfile(profile[s], "threw")]
    /\ UNCHANGED <<other, caps, aborted, phase, rejectedBy, startSt, stopSt, runCalls,
                   stopCalls, errLogs, exitLogs>>

RunThrow_Fatal(s) ==
    /\ loopSt[s] = "running"
    /\ loopSt' = [t \in Services |-> "exited"]
    /\ phase' = "rejected"
    /\ rejectedBy' = <<"run", s>>
    /\ lastOutcome' = [lastOutcome EXCEPT ![s] = "threw"]
    /\ profile' = [profile EXCEPT ![s] = NextProfile(profile[s], "threw")]
    /\ UNCHANGED <<other, caps, aborted, startSt, stopSt, runCalls, stopCalls, errLogs,
                   exitLogs>>

\* service.run(signal) of s throws: caught, and logged as an error when the
\* token is unsignaled.
RunThrow(s) ==
    /\ loopSt[s] = "running"
    /\ errLogs' = [errLogs EXCEPT ![s] = IF aborted THEN @ ELSE @ + 1]
    /\ loopSt' = [loopSt EXCEPT ![s] = AfterRun]
    /\ lastOutcome' = [lastOutcome EXCEPT ![s] = "threw"]
    /\ profile' = [profile EXCEPT ![s] = NextProfile(profile[s], "threw")]
    /\ UNCHANGED <<other, caps, aborted, phase, rejectedBy, startSt, stopSt, runCalls,
                   stopCalls, exitLogs>>

TimerFire_IgnoresAbort(s) ==
    /\ loopSt[s] = "backoff"
    /\ runCalls[s] < MaxCount
    /\ loopSt' = [loopSt EXCEPT ![s] = "running"]
    /\ runCalls' = [runCalls EXCEPT ![s] = @ + 1]
    /\ UNCHANGED <<other, caps, aborted, phase, rejectedBy, startSt, stopSt, stopCalls,
                   errLogs, exitLogs, lastOutcome, profile>>

\* The backoff timer of s elapses (an aborted timer never does): the loop
\* condition holds and service.run is invoked again.
TimerFire(s) ==
    /\ loopSt[s] = "backoff"
    /\ ~aborted
    /\ runCalls[s] < MaxCount
    /\ loopSt' = [loopSt EXCEPT ![s] = "running"]
    /\ runCalls' = [runCalls EXCEPT ![s] = @ + 1]
    /\ UNCHANGED <<other, caps, aborted, phase, rejectedBy, startSt, stopSt, stopCalls,
                   errLogs, exitLogs, lastOutcome, profile>>

BackoffAbort_Never(s) ==
    /\ FALSE
    /\ UNCHANGED vars

\* The signal rejects the pending backoff wait of s; the rejection is caught
\* and the loop condition ends the loop.
BackoffAbort(s) ==
    /\ loopSt[s] = "backoff"
    /\ aborted
    /\ loopSt' = [loopSt EXCEPT ![s] = "exited"]
    /\ UNCHANGED <<other, caps, aborted, phase, rejectedBy, startSt, stopSt, runCalls,
                   stopCalls, errLogs, exitLogs, lastOutcome, profile>>

\* The second Promise.all is fulfilled.
AllLoopsExited == \A s \in Enumerated(loopSt) : loopSt[s] = "exited"

\* Mutant: the stop phase goes over the services the start phase went over.
EnterStop_StartedOnly ==
    /\ phase = "run"
    /\ AllLoopsExited
    /\ phase' = "stop"
    /\ stopSt' = [s \in Services |->
                    IF s \notin Enumerated(startSt) THEN "idle"
                    ELSE IF hasStop[s] THEN "pending" ELSE "done"]
    /\ stopCalls' = [s \in Services |->
                      IF s \in Enumerated(startSt) /\ hasStop[s]
                      THEN stopCalls[s] + 1 ELSE stopCalls[s]]
    /\ UNCHANGED <<other, caps, aborted, rejectedBy, startSt, loopSt, runCalls, errLogs,
                   exitLogs, lastOutcome, profile>>

\* The run phase is over: the map of the stop phase invokes stop() on every
\* registered service that has one.
EnterStop ==
    /\ phase = "run"
    /\ AllLoopsExited
    /\ phase' = "stop"
    /\ stopSt' = [s \in Services |->
                    IF s \notin GetItems THEN "idle"
                    ELSE IF hasStop[s] THEN "pending" ELSE "done"]
    /\ stopCalls' = [s \in Services |->
                      IF s \in GetItems /\ hasStop[s]
                      THEN stopCalls[s] + 1 ELSE stopCalls[s]]
    /\ UNCHANGED <<other, caps, aborted, rejectedBy, startSt, loopSt, runCalls, errLogs,
                   exitLogs, lastOutcome, profile>>

\* stop() of service s completes.
StopReturn(s) ==
    /\ stopSt[s] = "pending"
    /\ stopSt' = [stopSt EXCEPT ![s] = "done"]
    /\ UNCHANGED <<other, caps, aborted, phase, rejectedBy, startSt, loopSt, runCalls,
                   stopCalls, errLogs, exitLogs, lastOutcome, profile>>

\* stop() of service s fails: nothing catches it, so Promise.all rejects with
\* the first failure and so does run(); nothing is logged.
StopFail(s) ==
    /\ stopSt[s] = "pending"
    /\ stopSt' = [stopSt EXCEPT ![s] = "failed"]
    /\ IF phase = "stop"
       THEN phase' = "rejected" /\ rejectedBy' = <<"stop", s>>
       ELSE UNCHANGED <<phase, rejectedBy>>
    /\ UNCHANGED <<other, caps, aborted, startSt, loopSt, runCalls, stopCalls, errLogs,
                   exitLogs, lastOutcome, profile>>

\* The third Promise.all is fulfilled.
AllStopped == \A s \in Enumerated(stopSt) : stopSt[s] = "done"

\* run() returns.
Finish ==
    /\ phase = "stop"
    /\ AllStopped
    /\ phase' = "resolved"
    /\ UNCHANGED <<other, caps, aborted, rejectedBy, startSt, loopSt, stopSt, runCalls,
                   stopCalls, errLogs, exitLogs, lastOutcome, profile>>

Next ==
    \/ Shutdown
    \/ RunCall
    \/ \E s \in Services : StartReturn(s)
    \/ \E s \in Services : StartFail(s)
    \/ EnterLoops
    \/ \E s \in Services : RunReturn(s)
    \/ \E s \in Services : RunThrow(s)
    \/ \E s \in Services : TimerFire(s)
    \/ \E s \in Services : BackoffAbort(s)
    \/ EnterStop
    \/ \E s \in Services : StopReturn(s)
    \/ \E s \in Services : StopFail(s)
    \/ Finish

Spec == Init /\ [][Next]_vars

\* run() has settled.
Completed == phase \in {"resolved", "rejected"}

TypeOK ==
    /\ aborted \in BOOLEAN
    /\ phase \in {"idle", "start", "run", "stop", "resolved", "rejected"}
    /\ startSt \in [Services -> {"idle", "pending", "done", "failed"}]
    /\ loopSt \in [Services -> {"idle", "running", "backoff", "exited"}]
    /\ stopSt \in [Services -> {"idle", "pending", "done", "failed"}]
    /\ runCalls \in [Services -> 0..MaxCount]
    /\ stopCalls \in [Services -> 0..MaxCount]
    /\ errLogs \in [Services -> 0..MaxCount]
    /\ exitLogs \in [Services -> 0..MaxCount]


\* The timers of the event loop elapse.
TimerFair == \A s \in Services : WF_vars(TimerFire(s))

\* The run loops under timers that elapse.
RetrySpec == Spec /\ TimerFair

\* The continuations of run() are scheduled: run() is called, a fulfilled
\* Promise.all resumes it, a rejected backoff wait resumes its loop.
SchedulingFair ==
    /\ WF_vars(RunCall)
    /\ WF_vars(EnterLoops)
    /\ WF_vars(EnterStop)
    /\ WF_vars(Finish)
    /\ \A s \in Services : WF_vars(BackoffAbort(s))

\* Every run() in progress and every stop() ends.
HooksEnd ==
    /\ \A s \in Services : WF_vars(RunReturn(s) \/ RunThrow(s))
    /\ \A s \in Services : WF_vars(StopReturn(s) \/ StopFail(s))

\* Shutdown under hooks that end; no timer is assumed to elapse and no
\* start() is assumed to end.
ShutdownSpec == Spec /\ SchedulingFair /\ HooksEnd

----------------------------------------------------------------------------
(* The supervisor: start barrier, run loops, stop phase.                   *)

\* C1: in run(), no service's run(signal) is invoked until start(signal) of
\* every registered service has completed.
C1_StartBarrier ==
    \A s \in Services :
        (runCalls[s] > 0 \/ loopSt[s] # "idle") =>
            \A t \in Services : startSt[t] = "done"

\* The start phase is over and a first run() is in progress.
C1_Witness ==
    \E s \in Services : loopSt[s] = "running" /\ runCalls[s] = 1 /\ phase = "run"

\* C2: run() completes only when the token has been signaled; it never
\* completes while the token is unsignaled.
C2_CompletesOnlyAfterShutdown == phase = "resolved" => aborted

\* A service's run() throws at this step while the token is unsignaled.
Dies(s) ==
    /\ loopSt[s] = "running"
    /\ loopSt'[s] # "running"
    /\ lastOutcome'[s] = "threw"
    /\ ~aborted

\* C3: a service whose run() throws while the token is unsignaled is
\* contained: one error entry is logged for it, run() does not reject (it
\* only ever rejects with the failure of a start or a stop), and the loops of
\* the other services are left as they are.
C3_CrashContained ==
    /\ [](phase = "rejected" => rejectedBy[1] \in {"start", "stop"})
    /\ [][\A s \in Services :
            Dies(s) =>
                /\ errLogs'[s] = errLogs[s] + 1
                /\ phase' = "run"
                /\ \A t \in Services \ {s} :
                    /\ loopSt'[t] = loopSt[t]
                    /\ runCalls'[t] = runCalls[t]
                    /\ errLogs'[t] = errLogs[t]
                    /\ exitLogs'[t] = exitLogs[t]]_vars

\* A service has crashed and been logged while another one is inside run().
C3_Witness ==
    \E s, t \in Services :
        /\ s # t
        /\ errLogs[s] > 0
        /\ loopSt[t] = "running"
        /\ phase = "run"
        /\ ~aborted

\* A run() of s ends at this step while the token is unsignaled.
EndsUnsignaled(s) ==
    /\ loopSt[s] = "running"
    /\ loopSt'[s] # "running"
    /\ ~aborted

\* C4: while the token is unsignaled, every completion of a service's run()
\* (a return or a throw) is logged with an entry of its kind and sends the
\* loop into the backoff wait, and the wait is followed by another invocation
\* of run() unless the token is signaled first; this holds for every
\* invocation the model follows (the first MaxCount of each service).
C4_RestartForever ==
    /\ [][\A s \in Services :
            EndsUnsignaled(s) =>
                /\ loopSt'[s] = "backoff"
                /\ IF lastOutcome'[s] = "threw"
                   THEN errLogs'[s] = errLogs[s] + 1 /\ exitLogs'[s] = exitLogs[s]
                   ELSE exitLogs'[s] = exitLogs[s] + 1 /\ errLogs'[s] = errLogs[s]]_vars
    /\ [][\A s \in Services :
            (loopSt[s] = "backoff" /\ loopSt'[s] = "running") =>
                runCalls'[s] = runCalls[s] + 1]_vars
    /\ \A s \in Services :
        (loopSt[s] = "backoff" /\ runCalls[s] < MaxCount)
            ~> (loopSt[s] = "running" \/ aborted)

\* A service that has crashed every time is inside run() once more.
C4_Witness ==
    \E s \in Services :
        /\ runCalls[s] = MaxCount
        /\ errLogs[s] = MaxCount - 1
        /\ loopSt[s] = "running"
        /\ ~aborted

\* C5: once the token is signaled, no new invocation of any service's run()
\* begins.
C5_NoRunAfterAbort ==
    [][aborted =>
        \A s \in Services :
            /\ runCalls'[s] = runCalls[s]
            /\ (loopSt'[s] = "running" => loopSt[s] = "running")]_vars

\* A loop whose every run() was logged, so that the signal found it in its
\* backoff wait, has exited.
C5_Witness ==
    \E s \in Services :
        /\ aborted
        /\ loopSt[s] = "exited"
        /\ runCalls[s] > 0
        /\ errLogs[s] + exitLogs[s] = runCalls[s]

\* C6: stop() is invoked on a service only after every run loop has observed
\* cancellation and exited: never while a run() is in progress, never while
\* the token is unsignaled.
C6_StopAfterCancelledLoops ==
    \A s \in Services :
        stopCalls[s] > 0 =>
            /\ aborted
            /\ \A t \in Services : loopSt[t] = "exited"

\* C7: a failing stop() is not fatal: run() does not reject because of it.
C7_StopFailureNotFatal ==
    (\E s \in Services : stopSt[s] = "failed") => phase # "rejected"

\* C8: if start(signal) of any service fails, run() rejects with the failure
\* of a start (the first one to fail) and no service's run() is ever invoked.
C8_StartFailureFatal ==
    (\E s \in Services : startSt[s] = "failed") =>
        /\ phase = "rejected"
        /\ rejectedBy[1] = "start"
        /\ startSt[rejectedBy[2]] = "failed"
        /\ \A t \in Services : runCalls[t] = 0 /\ loopSt[t] = "idle"

\* A start has failed beside one that completed.
C8_Witness ==
    \E s, t \in Services :
        /\ startSt[s] = "failed"
        /\ startSt[t] = "done"
        /\ rejectedBy = <<"start", s>>

\* C9 as stated: after shutdown(), provided every run() in progress and every
\* stop() ends, run() completes.
C9_ShutdownCompletes == aborted ~> Completed

\* run() has been called and no start() is pending.
StartsSettled ==
    /\ phase # "idle"
    /\ \A s \in Services : startSt[s] \in {"done", "failed"}

\* C9, amended: after shutdown() and once every start() has ended, provided
\* every run() in progress and every stop() ends, run() completes; no timer
\* has to elapse for it, so a loop in its backoff wait is released by the
\* signal itself.
C9_ShutdownCompletesOnceStarted == (aborted /\ StartsSettled) ~> Completed

\* run() has returned after the signal released a loop from its backoff wait.
C9_Witness ==
    /\ phase = "resolved"
    /\ aborted
    /\ \E s \in Services :
        /\ runCalls[s] > 0
        /\ errLogs[s] + exitLogs[s] = runCalls[s]

\* run() has got through its stop phase.
StopPhaseOver ==
    \/ phase = "resolved"
    \/ phase = "rejected" /\ rejectedBy[1] = "stop"

\* C10 as stated: for a service with stop() whose run() has thrown on its
\* first invocation and returned on every later one (there was one), after
\* cancellation and completion of run() the log holds one error-exit entry
\* and at least one unexpected-normal-exit entry, and stop() was invoked
\* exactly once.
C10_OnceThenOk_AsStated ==
    \A s \in Services :
        (/\ phase = "resolved"
         /\ aborted
         /\ hasStop[s]
         /\ profile[s] = "once"
         /\ lastOutcome[s] = "returned") =>
            /\ errLogs[s] = 1
            /\ exitLogs[s] >= 1
            /\ stopCalls[s] = 1

\* C10, amended: for such a service, after the stop phase the log holds at
\* most one error-exit entry, exactly one if run() was invoked more than
\* once, and one unexpected-normal-exit entry for every later invocation but
\* possibly the last (the one cancellation overtook); stop() was invoked
\* exactly once if the service has one.
C10_OnceThenOk ==
    \A s \in Services :
        (StopPhaseOver /\ profile[s] = "once") =>
            /\ errLogs[s] <= 1
            /\ (runCalls[s] >= 2 =>
                    /\ errLogs[s] = 1
                    /\ exitLogs[s] + 2 \in {runCalls[s], runCalls[s] + 1})
            /\ (runCalls[s] < 2 => exitLogs[s] = 0)
            /\ stopCalls[s] = (IF hasStop[s] THEN 1 ELSE 0)

\* Such a service, stopped, with one entry of each kind.
C10_Witness ==
    \E s \in Services :
        /\ phase = "resolved"
        /\ profile[s] = "once"
        /\ errLogs[s] = 1
        /\ exitLogs[s] = 1
        /\ stopCalls[s] = 1

----------------------------------------------------------------------------
(***************************************************************************)
(* Model of the plugin manager (src/PluginManager.ts).                     *)
(*                                                                         *)
(* installPlugins has no await: its two loops run in one synchronous       *)
(* stretch, one action per loop iteration here so that the order of the    *)
(* hooks is visible.  A promise returned by a plugin's start is dropped,   *)
(* and settles only after that stretch has ended.  reconfigurePlugins      *)
(* awaits each reconfigure it invokes.                                     *)
(***************************************************************************)

\* 'config' in plugin p: it declares a schema.
hasConfig == pluginManager.hasConfig

\* Plugin p defines reconfigure.
hasReconfigure == pluginManager.hasReconfigure

\* app.config, as the schema of plugin p sees it: <<known keys, other keys>>.
appConfig == pluginManager.appConfig

\* PluginManager.plugins: the registered plugins, in order.
registry == pluginManager.registry

\* Position of installPlugins: "idle", "install", "start", "resolved",
\* "rejected".
ipc == pluginManager.ipc

\* The plugin the current loop of installPlugins is at.
idx == pluginManager.idx

\* Per plugin, its turn in the install loop: "none", "skipped" (no install),
\* "ok", "threw", "parseFailed".
installSt == pluginManager.installSt

\* Per plugin, its turn in the start loop: "none", "skipped" (no start),
\* "done", "threw", "parseFailed", "pending" (start returned a promise),
\* "failed" (that promise rejected).
plugStartSt == pluginManager.startSt

\* The error installPlugins rejected with: <<hook, plugin>>.
ierr == pluginManager.ierr

\* The argument of reconfigurePlugins, per plugin as appConfig.
newConfig == pluginManager.newConfig

\* Position of reconfigurePlugins: "idle", "loop", "await" (inside
\* plugin.reconfigure), "resolved", "rejected".
rpc == pluginManager.rpc

\* The position in the registry the loop of reconfigurePlugins is at.
ridx == pluginManager.ridx

\* The local restartRequired of reconfigurePlugins.
restartRequired == pluginManager.restartRequired

\* Per plugin, invocations of plugin.reconfigure.
reconfCalls == pluginManager.reconfCalls

\* The error reconfigurePlugins rejected with: <<hook, plugin>>.
rerr == pluginManager.rerr

Plugins == 1..BatchLen

\* What a configuration holds under the keys a plugin's schema knows ("bad":
\* a value the schema refuses) and whether it holds other keys beside them.
KnownKeys == {"a", "b", "bad"}
OtherKeys == {0, 1}

\* plugin.config.parse(config) throws when the schema refuses the value.
ParseFails(c) == c[1] = "bad"

\* plugin.config.parse(config): the slice, the keys the schema knows; an
\* object schema strips the others.
Parse(c) == c[1]

\* Mutant: two freshly parsed objects compared by identity are never equal.
DeepEquals_SameObject(a, b) == FALSE

\* deepEquals of two slices.
DeepEquals(a, b) == a = b

\* KeyedRegistry.getItems() holds p.
InRegistry(p) == \E i \in 1..Len(registry) : registry[i] = p

\* A supervisor nobody runs: no service has a hook, run() was not called.
AppIdle ==
    /\ hasRun = [s \in Services |-> FALSE]
    /\ hasStop = [s \in Services |-> FALSE]
    /\ aborted = FALSE
    /\ phase = "idle"
    /\ rejectedBy = NoError
    /\ startSt = [s \in Services |-> "idle"]
    /\ loopSt = [s \in Services |-> "idle"]
    /\ stopSt = [s \in Services |-> "idle"]
    /\ runCalls = [s \in Services |-> 0]
    /\ stopCalls = [s \in Services |-> 0]
    /\ errLogs = [s \in Services |-> 0]
    /\ exitLogs = [s \in Services |-> 0]
    /\ lastOutcome = [s \in Services |-> "none"]
    /\ profile = [s \in Services |-> "none"]

\* A new PluginManager (empty registry, no call made) and the plugins P that
\* will be handed to it: hc[p] tells whether p has a schema, hr[p] whether
\* it defines reconfigure, ac[p] what its schema finds in app.config.
NewPluginManager(P, hc, hr, ac) ==
    [hasConfig |-> hc,
     hasReconfigure |-> hr,
     appConfig |-> ac,
     registry |-> <<>>,
     ipc |-> "idle",
     idx |-> 0,
     installSt |-> [p \in P |-> "none"],
     startSt |-> [p \in P |-> "none"],
     ierr |-> NoError,
     newConfig |-> <<>>,
     rpc |-> "idle",
     ridx |-> 0,
     restartRequired |-> FALSE,
     reconfCalls |-> [p \in P |-> 0],
     rerr |-> NoError]

\* A new PluginManager and a batch of BatchLen plugins, each with or without
\* a schema, over an application configuration that each schema accepts or
\* refuses.
PluginInit ==
    /\ AppIdle
    /\ stateManager = Absent
    /\ \E hc \in [Plugins -> BOOLEAN],
          ac \in [Plugins -> {<<"a", 0>>, <<"bad", 0>>}] :
          pluginManager =
             NewPluginManager(Plugins, hc, [p \in Plugins |-> FALSE], ac)

\* installPlugins(plugins) is called.
InstallCall ==
    /\ ipc = "idle"
    /\ pluginManager' = [pluginManager EXCEPT !.ipc = "install", !.idx = 1]
    /\ UNCHANGED <<appVars, stateManager>>

\* How the install turn of plugin p ends: without an install hook nothing is
\* evaluated; with one, the config argument is evaluated first (the schema,
\* if any, parses app.config), then install runs.
InstallOutcome(p, hasInstall, throws) ==
    IF ~hasInstall THEN "skipped"
    ELSE IF hasConfig[p] /\ ParseFails(appConfig[p]) THEN "parseFailed"
    ELSE IF throws THEN "threw"
    ELSE "ok"

\* Mutant: the plugin is registered before its install is attempted.
Registers_Always(outcome) == TRUE

\* this.plugins.register(plugin) is reached: nothing was thrown before it.
Registers(outcome) == outcome \in {"skipped", "ok"}

\* The hook an error came from.
ErrorOf(outcome, hook) == IF outcome = "parseFailed" THEN "parse" ELSE hook

\* One iteration of the install loop: install if present, then register; an
\* exception is logged and rethrown, which rejects installPlugins.
InstallStep ==
    /\ ipc = "install"
    /\ idx <= BatchLen
    /\ \E hasInstall \in BOOLEAN, throws \in BOOLEAN :
          LET outcome == InstallOutcome(idx, hasInstall, throws)
              after == [pluginManager EXCEPT
                           !.installSt[idx] = outcome,
                           !.registry = IF Registers(outcome)
                                        THEN Append(registry, idx)
                                        ELSE registry]
          IN  pluginManager' =
                 IF outcome \in {"skipped", "ok"}
                 THEN [after EXCEPT !.idx = idx + 1]
                 ELSE [after EXCEPT
                          !.ipc = "rejected",
                          !.ierr = <<ErrorOf(outcome, "install"), idx>>]
    /\ UNCHANGED <<appVars, stateManager>>

\* Mutant: one loop, each plugin started right after its own install.
InstallLoopOver_FirstDone == idx > 1

\* The install loop has gone through the whole batch.
InstallLoopOver == idx > BatchLen

\* The install loop ends without an exception; the start loop begins.
EnterStartLoop ==
    /\ ipc = "install"
    /\ InstallLoopOver
    /\ pluginManager' = [pluginManager EXCEPT !.ipc = "start", !.idx = 1]
    /\ UNCHANGED <<appVars, stateManager>>

\* How the start turn of plugin p ends, as installPlugins sees it: start
\* returns ("done"), throws, or returns a promise ("pending").
StartOutcome(p, hasStart, behaviour) ==
    IF ~hasStart THEN "skipped"
    ELSE IF hasConfig[p] /\ ParseFails(appConfig[p]) THEN "parseFailed"
    ELSE behaviour

\* One iteration of the start loop: start if present, its result dropped;
\* an exception is logged and rethrown, which rejects installPlugins.
StartStep ==
    /\ ipc = "start"
    /\ idx <= BatchLen
    /\ \E hasStart \in BOOLEAN, behaviour \in {"done", "threw", "pending"} :
          LET outcome == StartOutcome(idx, hasStart, behaviour)
              after == [pluginManager EXCEPT !.startSt[idx] = outcome]
          IN  pluginManager' =
                 IF outcome \in {"threw", "parseFailed"}
                 THEN [after EXCEPT
                          !.ipc = "rejected",
                          !.ierr = <<ErrorOf(outcome, "start"), idx>>]
                 ELSE [after EXCEPT !.idx = idx + 1]
    /\ UNCHANGED <<appVars, stateManager>>

\* The start loop ends without an exception: installPlugins resolves.
InstallFinish ==
    /\ ipc = "start"
    /\ idx > BatchLen
    /\ pluginManager' = [pluginManager EXCEPT !.ipc = "resolved"]
    /\ UNCHANGED <<appVars, stateManager>>

\* installPlugins has run to its end.
InstallSettled == ipc \in {"resolved", "rejected"}

\* The promise a start returned is fulfilled.  The part of an async start
\* after its first await runs once the synchronous stretch that invoked it
\* (the rest of installPlugins) has ended.
StartResolves(p) ==
    /\ InstallSettled
    /\ plugStartSt[p] = "pending"
    /\ pluginManager' = [pluginManager EXCEPT !.startSt[p] = "done"]
    /\ UNCHANGED <<appVars, stateManager>>

\* The promise a start returned is rejected; nothing observes it.
StartRejects(p) ==
    /\ InstallSettled
    /\ plugStartSt[p] = "pending"
    /\ pluginManager' = [pluginManager EXCEPT !.startSt[p] = "failed"]
    /\ UNCHANGED <<appVars, stateManager>>

PluginNext ==
    \/ InstallCall
    \/ InstallStep
    \/ EnterStartLoop
    \/ StartStep
    \/ InstallFinish
    \/ \E p \in Plugins : StartResolves(p)
    \/ \E p \in Plugins : StartRejects(p)

PluginSpec == PluginInit /\ [][PluginNext]_vars

\* The shape of the plugin manager's state during installPlugins.
PluginTypeOK ==
    /\ ipc \in {"idle", "install", "start", "resolved", "rejected"}
    /\ idx \in 0..(BatchLen + 1)
    /\ installSt \in [Plugins -> {"none", "skipped", "ok", "threw", "parseFailed"}]
    /\ plugStartSt \in [Plugins -> {"none", "skipped", "done", "threw",
                                    "parseFailed", "pending", "failed"}]
    /\ \A i \in 1..Len(registry) : registry[i] \in Plugins
    /\ (ipc = "rejected") = (ierr # NoError)

------
(***************************************************************************)
(* The plugin manager: installPlugins.                                     *)
(***************************************************************************)

StartInvoked(k) == plugStartSt[k] \in {"done", "threw", "pending", "failed"}

\* The install turn of plugin k ended in an exception.
InstallFailed(k) == installSt[k] \in {"threw", "parseFailed"}

\* C12: a start is invoked only when the install turn of every plugin of
\* the batch has ended without an exception; once an install has failed, no
\* start of the batch is invoked.
C12_InstallBeforeStart ==
    /\ \A k \in Plugins :
          StartInvoked(k) => \A j \in Plugins : installSt[j] \in {"skipped", "ok"}
    /\ (\E j \in Plugins : InstallFailed(j)) =>
          \A k \in Plugins : plugStartSt[k] = "none"

\* A start was invoked in a batch of which a plugin has an install hook.
C12_Witness ==
    /\ \E k \in Plugins : StartInvoked(k)
    /\ \E j \in Plugins : installSt[j] = "ok"

\* C13: when the start of plugin k fails, by throwing or by rejecting the
\* promise it returned, installPlugins rejects with the error of k's start
\* and k is registered.
C13_StartFailureRejects ==
    \A k \in Plugins :
        plugStartSt[k] \in {"threw", "failed"} =>
            /\ ipc = "rejected"
            /\ ierr = <<"start", k>>
            /\ InRegistry(k)

\* C14: the start of the plugin at position k+1 is invoked only when the
\* start at position k has completed, and installPlugins does not resolve
\* while a start it invoked is still in progress.
C14_StartsSequential ==
    /\ \A k \in Plugins :
          (k + 1 \in Plugins /\ StartInvoked(k + 1)) => plugStartSt[k] # "pending"
    /\ ipc = "resolved" => \A k \in Plugins : plugStartSt[k] # "pending"

\* C15: a plugin with a schema that refuses the application configuration
\* is never registered.
C15_ValidatedBeforeRegistered ==
    \A k \in Plugins :
        (hasConfig[k] /\ ParseFails(appConfig[k])) => ~InRegistry(k)

----------------------------------------------------------------------------
(***************************************************************************)
(* The plugin manager: reconfigurePlugins.                                 *)
(***************************************************************************)

Registered == 1..RegLen

\* The configurations handed to reconfigurePlugins, as one schema sees them:
\* the same known keys, the same with another key added, changed known keys,
\* known keys the schema refuses.
NewConfigs == {<<"a", 0>>, <<"a", 1>>, <<"b", 0>>, <<"bad", 0>>}

\* The plugin manager after an installPlugins call that resolved with RegLen
\* plugins, none with a start hook.  A plugin whose schema refuses the
\* application configuration got there without an install hook.
ReconfigureInit ==
    /\ AppIdle
    /\ stateManager = Absent
    /\ \E hc \in [Registered -> BOOLEAN], hr \in [Registered -> BOOLEAN],
          ac \in [Registered -> {<<"a", 0>>, <<"bad", 0>>}] :
          pluginManager =
             [NewPluginManager(Registered, hc, hr, ac) EXCEPT
                 !.registry = [i \in Registered |-> i],
                 !.ipc = "resolved",
                 !.idx = RegLen + 1,
                 !.installSt = [p \in Registered |->
                                  IF hc[p] /\ ParseFails(ac[p])
                                  THEN "skipped" ELSE "ok"],
                 !.startSt = [p \in Registered |-> "skipped"]]

\* reconfigurePlugins(newConfig) is called.
ReconfigureCall ==
    /\ rpc = "idle"
    /\ \E nc \in [Registered -> NewConfigs] :
          pluginManager' = [pluginManager EXCEPT
                               !.newConfig = nc,
                               !.rpc = "loop",
                               !.ridx = 1,
                               !.restartRequired = FALSE]
    /\ UNCHANGED <<appVars, stateManager>>

\* Mutant: the configurations are compared, not the slices parsed from them.
SliceChanged_WholeConfig(p) == appConfig[p] # newConfig[p]

\* The slice of plugin p parsed from newConfig differs from the one parsed
\* from app.config.
SliceChanged(p) == ~DeepEquals(Parse(appConfig[p]), Parse(newConfig[p]))

\* One iteration of the loop over the registry, up to its await or its end:
\* a plugin without a schema is passed over; both slices are parsed; a
\* changed slice is handed to reconfigure if there is one, and otherwise
\* flags the result.
ReconfigureStep ==
    /\ rpc = "loop"
    /\ ridx <= Len(registry)
    /\ LET p == registry[ridx] IN
          pluginManager' =
             IF ~hasConfig[p]
             THEN [pluginManager EXCEPT !.ridx = ridx + 1]
             ELSE IF ParseFails(appConfig[p]) \/ ParseFails(newConfig[p])
             THEN [pluginManager EXCEPT
                      !.rpc = "rejected", !.rerr = <<"parse", p>>]
             ELSE IF ~SliceChanged(p)
             THEN [pluginManager EXCEPT !.ridx = ridx + 1]
             ELSE IF hasReconfigure[p]
             THEN [pluginManager EXCEPT
                      !.reconfCalls[p] = @ + 1, !.rpc = "await"]
             ELSE [pluginManager EXCEPT
                      !.restartRequired = TRUE, !.ridx = ridx + 1]
    /\ UNCHANGED <<appVars, stateManager>>

\* The awaited reconfigure is over; the loop goes on.
ReconfigureReturn ==
    /\ rpc = "await"
    /\ pluginManager' = [pluginManager EXCEPT !.rpc = "loop", !.ridx = ridx + 1]
    /\ UNCHANGED <<appVars, stateManager>>

\* The awaited reconfigure throws or rejects: so does reconfigurePlugins.
ReconfigureFail ==
    /\ rpc = "await"
    /\ pluginManager' = [pluginManager EXCEPT
                            !.rpc = "rejected",
                            !.rerr = <<"reconfigure", registry[ridx]>>]
    /\ UNCHANGED <<appVars, stateManager>>

\* Mutant: the new configuration becomes the application's.
ReconfigureFinish_Installs ==
    /\ rpc = "loop"
    /\ ridx > Len(registry)
    /\ pluginManager' = [pluginManager EXCEPT !.rpc = "resolved",
                                              !.appConfig = newConfig]
    /\ UNCHANGED <<appVars, stateManager>>

\* The loop is over: return {restartRequired}.
ReconfigureFinish ==
    /\ rpc = "loop"
    /\ ridx > Len(registry)
    /\ pluginManager' = [pluginManager EXCEPT !.rpc = "resolved"]
    /\ UNCHANGED <<appVars, stateManager>>

ReconfigureNext ==
    \/ ReconfigureCall
    \/ ReconfigureStep
    \/ ReconfigureReturn
    \/ ReconfigureFail
    \/ ReconfigureFinish

ReconfigureSpec == ReconfigureInit /\ [][ReconfigureNext]_vars

\* C16: when reconfigurePlugins returns, restartRequired is true if and only
\* if some registered plugin declares a schema, exposes no reconfigure, and
\* its slice of newConfig differs from its slice of the application config.
C16_RestartRequired ==
    rpc = "resolved" =>
        (restartRequired <=>
            \E p \in Registered :
                /\ InRegistry(p)
                /\ hasConfig[p]
                /\ ~hasReconfigure[p]
                /\ Parse(newConfig[p]) # Parse(appConfig[p]))

\* reconfigurePlugins has returned restartRequired = true while another
\* plugin, unchanged, got no reconfigure.
C16_Witness ==
    /\ rpc = "resolved"
    /\ restartRequired
    /\ \E p \in Registered : hasConfig[p] /\ Parse(newConfig[p]) = Parse(appConfig[p])

\* Plugin p is registered, declares a schema, exposes reconfigure, and its
\* two slices parse and differ.
MustReconfigure(p) ==
    /\ InRegistry(p)
    /\ hasConfig[p]
    /\ hasReconfigure[p]
    /\ ~ParseFails(appConfig[p])
    /\ ~ParseFails(newConfig[p])
    /\ Parse(newConfig[p]) # Parse(appConfig[p])

\* C17, as stated: once reconfigurePlugins has completed, reconfigure was
\* invoked exactly once for every plugin that is registered, declares a
\* schema, exposes reconfigure and has a changed slice, and never for
\* another plugin.
C17_ReconfiguredOnce_AsStated ==
    rpc \in {"resolved", "rejected"} =>
        \A p \in Registered :
            reconfCalls[p] = (IF MustReconfigure(p) THEN 1 ELSE 0)

\* C17, amended: reconfigure is invoked at most once per plugin and only for
\* a registered plugin that declares a schema, exposes reconfigure and has a
\* changed slice; it is invoked for every such plugin when the call returns,
\* and when the call rejects, for every such plugin up to the one whose
\* schema validation or reconfigure made it reject.
C17_ReconfiguredOnce ==
    \A p \in Registered :
        /\ reconfCalls[p] <= 1
        /\ reconfCalls[p] = 1 => (rpc # "idle" /\ MustReconfigure(p))
        /\ (rpc = "resolved" /\ MustReconfigure(p)) => reconfCalls[p] = 1
        /\ (rpc = "rejected" /\ MustReconfigure(p)) =>
              reconfCalls[p] = (IF p <= rerr[2] THEN 1 ELSE 0)

\* The call has returned after one reconfigure, and a plugin with another
\* key added to the configuration, but the same slice, got none.
C17_Witness ==
    /\ rpc = "resolved"
    /\ \E p \in Registered : MustReconfigure(p) /\ reconfCalls[p] = 1
    /\ \E p \in Registered :
          /\ hasConfig[p]
          /\ hasReconfigure[p]
          /\ newConfig[p] = <<"a", 1>>
          /\ reconfCalls[p] = 0

----------------------------------------------------------------------------
(***************************************************************************)
(* Model of the state manager (src/StateManager.ts).                       *)
(*                                                                         *)
(* The store runs on one thread.  Its callers act in units of work, each a *)
(* synchronous stretch of calls on the store; a job queued by              *)
(* queueMicrotask runs between two units of work, never inside one.  A     *)
(* subscriber records the call it gets and may throw.  A mutator returns   *)
(* the data it found in the slice.                                         *)
(***************************************************************************)

\* StateManager.state: per slice name <<>> (no slice) or <<d>>, the slice
\* and its data: 0 as constructed, n as left by the n-th mutator.
state == stateManager.state

\* StateManager.subscribers: per slice name the callbacks of its Set, in
\* insertion order.
subscribers == stateManager.subscribers

\* Per callback: "never" subscribed, "active", "removed".
cbSt == stateManager.cbSt

\* The queued replays, <<slice name, callback>>, oldest first.
microtasks == stateManager.microtasks

\* Per callback, the calls it got: <<kind, state passed>>.
received == stateManager.received

\* A unit of work of the store's callers is in progress.
busy == stateManager.busy

\* Number of mutators run so far.
mutations == stateManager.mutations

\* The latest mutateState call and how it ended.
lastMutate == stateManager.lastMutate

\* The type names of the slices.
Slices == {"A", "B"}

Callbacks == 1..NumCallbacks

\* c is an element of the sequence s.
InSeq(c, s) == \E i \in 1..Len(s) : s[i] = c

\* this.state.get(name) finds nothing.
NoSlice == <<>>

\* No mutateState call.
NoMutate == [slice |-> "none", outcome |-> "none", notified |-> <<>>,
             cbResult |-> <<>>, result |-> <<>>, thrower |-> 0]

\* A new StateManager: no slice, no subscriber, nothing queued.
NewStateManager ==
    [state |-> [t \in Slices |-> NoSlice],
     subscribers |-> [t \in Slices |-> <<>>],
     cbSt |-> [c \in Callbacks |-> "never"],
     microtasks |-> <<>>,
     received |-> [c \in Callbacks |-> <<>>],
     busy |-> FALSE,
     mutations |-> 0,
     lastMutate |-> NoMutate]

StoreInit ==
    /\ AppIdle
    /\ pluginManager = Absent
    /\ stateManager = NewStateManager

\* The callers of the store are at work, or about to start a unit of work
\* with nothing queued.  (A unit of work started while a replay is queued
\* is a job queued ahead of it; to the store it is the end of the unit of
\* work that queued both.)
UnitOpen == busy \/ microtasks = <<>>

\* initializeState(Type, props) for a type name that has no slice yet: a new
\* slice instance is stored under it.
InitializeState(t) ==
    /\ UnitOpen
    /\ state[t] = NoSlice
    /\ stateManager' = [stateManager EXCEPT !.state[t] = <<0>>, !.busy = TRUE]
    /\ UNCHANGED <<appVars, pluginManager>>

\* Mutant: one list of subscribers for all slices.
Listeners_AnySlice(t) == subscribers["A"] \o subscribers["B"]

\* this.subscribers.get(ClassType.name), in the order forEach visits it.
Listeners(t) == subscribers[t]

\* Mutant: the exception of a subscriber is caught and the walk goes on.
Notified_All(subsAt, failAt) == subsAt

\* forEach over the Set of the slice: the callbacks are called in insertion
\* order, and the exception of the failAt-th (0: none throws) leaves the
\* walk, so the callbacks after it are not called.
Notified(subsAt, failAt) ==
    SubSeq(subsAt, 1, IF failAt = 0 THEN Len(subsAt) ELSE failAt)

\* mutateState(Type, callback) on an existing slice: the mutator runs, then
\* the subscribers of the slice are called in turn with the slice, then the
\* mutator's result is returned.  An exception of a subscriber (the
\* failAt-th) ends the call there.
MutateState(t) ==
    /\ UnitOpen
    /\ state[t] # NoSlice
    /\ mutations < MaxMutations
    /\ \E failAt \in 0..Len(Listeners(t)) :
          LET n == mutations + 1
              subsAt == Listeners(t)
              notified == Notified(subsAt, failAt)
              threw == failAt # 0
          IN  stateManager' = [stateManager EXCEPT
                 !.mutations = n,
                 !.state[t] = <<n>>,
                 !.received = [c \in Callbacks |->
                                 IF InSeq(c, notified)
                                 THEN Append(received[c], <<"notify", <<n>>>>)
                                 ELSE received[c]],
                 !.lastMutate = [slice |-> t,
                                 outcome |-> IF threw THEN "threw" ELSE "returned",
                                 notified |-> notified,
                                 cbResult |-> state[t],
                                 result |-> IF threw THEN <<>> ELSE state[t],
                                 thrower |-> failAt],
                 !.busy = TRUE]
    /\ UNCHANGED <<appVars, pluginManager>>

\* subscribe(Type, callback) with a new callback (callbacks are numbered in
\* the order they are handed over): it joins the Set of the slice and a
\* replay is queued.  Nothing is called.
Subscribe(c, t) ==
    /\ UnitOpen
    /\ cbSt[c] = "never"
    /\ \A d \in Callbacks : d < c => cbSt[d] # "never"
    /\ stateManager' = [stateManager EXCEPT
                           !.subscribers[t] = Append(@, c),
                           !.cbSt[c] = "active",
                           !.microtasks = Append(@, <<t, c>>),
                           !.busy = TRUE]
    /\ UNCHANGED <<appVars, pluginManager>>

\* Mutant: delete leaves the Set as it is.
Remove_Nothing(s, c) == s

\* Set.delete(callback): the Set without the callback, the Set itself when
\* the callback is not in it.
Remove(s, c) == SelectSeq(s, LAMBDA x : x # c)

\* The function subscribe returned is called: the callback leaves the Set.
Unsubscribe(c) ==
    /\ UnitOpen
    /\ cbSt[c] = "active"
    /\ stateManager' = [stateManager EXCEPT
                           !.subscribers =
                               [t \in Slices |-> Remove(subscribers[t], c)],
                           !.cbSt[c] = "removed",
                           !.busy = TRUE]
    /\ UNCHANGED <<appVars, pluginManager>>

\* The unit of work in progress ends.
Yield ==
    /\ busy
    /\ stateManager' = [stateManager EXCEPT !.busy = FALSE]
    /\ UNCHANGED <<appVars, pluginManager>>

\* Mutant: the queue is drained inside the unit of work that filled it.
TickRuns_Reentrant == microtasks # <<>>

\* The oldest queued job runs: no unit of work is in progress.
TickRuns == ~busy /\ microtasks # <<>>

\* Mutant: the job does not look whether the callback is still subscribed.
StillSubscribed_Unchecked(t, c) == TRUE

\* this.subscribers.get(key)?.has(callback)
StillSubscribed(t, c) == InSeq(c, subscribers[t])

\* The job queued by subscribe: if the callback is still in the Set it is
\* called with the state of the slice; getState throws if there is none.
Tick ==
    /\ TickRuns
    /\ LET t == Head(microtasks)[1]
           c == Head(microtasks)[2]
       IN  stateManager' = [stateManager EXCEPT
              !.microtasks = Tail(microtasks),
              !.received[c] = IF StillSubscribed(t, c) /\ state[t] # NoSlice
                              THEN Append(@, <<"replay", state[t]>>)
                              ELSE @]
    /\ UNCHANGED <<appVars, pluginManager>>

StoreNext ==
    \/ \E t \in Slices : InitializeState(t)
    \/ \E t \in Slices : MutateState(t)
    \/ \E c \in Callbacks, t \in Slices : Subscribe(c, t)
    \/ \E c \in Callbacks : Unsubscribe(c)
    \/ Yield
    \/ Tick

StoreSpec == StoreInit /\ [][StoreNext]_vars

\* The shape of the state manager's state.
StoreTypeOK ==
    /\ state \in [Slices -> {NoSlice} \cup {<<d>> : d \in 0..MaxMutations}]
    /\ cbSt \in [Callbacks -> {"never", "active", "removed"}]
    /\ busy \in BOOLEAN
    /\ mutations \in 0..MaxMutations
    /\ \A c \in Callbacks :
          (cbSt[c] = "active") = (\E t \in Slices : InSeq(c, subscribers[t]))
    /\ \A i \in 1..Len(microtasks) : cbSt[microtasks[i][2]] # "never"

------
(***************************************************************************)
(* The state manager: notifications and the deferred replay.               *)
(***************************************************************************)

\* The step is a mutateState call that returns.
MutateReturns ==
    /\ mutations' = mutations + 1
    /\ lastMutate'.outcome = "returned"

\* C18: a mutateState call on a slice that returns has run the mutator on
\* the slice, has called every callback subscribed to the slice at the call
\* exactly once with the mutated slice, in subscription order, has called no
\* other callback, and returns what the mutator returned.
C18_MutateNotifies ==
    [][MutateReturns =>
          LET t == lastMutate'.slice IN
          /\ state'[t] = <<mutations'>>
          /\ lastMutate'.notified = subscribers[t]
          /\ \A c \in Callbacks :
                received'[c] = IF InSeq(c, subscribers[t])
                               THEN Append(received[c], <<"notify", state'[t]>>)
                               ELSE received[c]
          /\ lastMutate'.cbResult = state[t]
          /\ lastMutate'.result = lastMutate'.cbResult]_vars

\* A mutateState call has returned after calling two subscribers of its
\* slice, the first subscribed first.
C18_Witness ==
    /\ lastMutate.outcome = "returned"
    /\ lastMutate.notified = <<1, 2>>
    /\ \A c \in {1, 2} :
          /\ received[c] # <<>>
          /\ received[c][Len(received[c])] = <<"notify", state[lastMutate.slice]>>

\* C19, as stated: the first call a subscriber gets is the replay, and every
\* later call is a notification of a mutateState.
C19_ReplayThenNotifications_AsStated ==
    \A c \in Callbacks :
        \A i \in 1..Len(received[c]) :
            (received[c][i][1] = "replay") = (i = 1)

\* The positions of the replay calls among the calls c got.
Replays(c) == {i \in 1..Len(received[c]) : received[c][i][1] = "replay"}

\* The step runs the oldest queued job.
TickStep == microtasks # <<>> /\ microtasks' = Tail(microtasks)

\* C19, amended: a subscriber gets at most one replay call, and gets it
\* when the job queued by subscribe runs if it is then still subscribed and
\* its slice exists; the replay passes the state of the slice at that
\* moment.  Every other call it gets is the notification of a mutateState
\* on its slice, made while it is subscribed, before or after the replay,
\* and every mutateState on its slice that returns calls it once.  It gets
\* no call before subscribe or after unsubscribe.
C19_ReplayAndNotifications ==
    /\ [](\A c \in Callbacks :
             /\ Cardinality(Replays(c)) <= 1
             /\ cbSt[c] = "never" => received[c] = <<>>)
    /\ [][/\ \A c \in Callbacks :
                \/ received'[c] = received[c]
                \/ \E t \in Slices :
                      /\ InSeq(c, subscribers[t])
                      /\ \/ /\ TickStep
                            /\ Head(microtasks) = <<t, c>>
                            /\ state[t] # NoSlice
                            /\ received'[c] =
                                  Append(received[c], <<"replay", state[t]>>)
                         \/ /\ mutations' = mutations + 1
                            /\ state'[t] = <<mutations'>>
                            /\ received'[c] =
                                  Append(received[c], <<"notify", state'[t]>>)
          /\ TickStep =>
                LET t == Head(microtasks)[1]
                    c == Head(microtasks)[2]
                IN  (InSeq(c, subscribers[t]) /\ state[t] # NoSlice) =>
                       Len(received'[c]) = Len(received[c]) + 1
          /\ MutateReturns =>
                \A c \in Callbacks :
                    InSeq(c, subscribers[lastMutate'.slice]) =>
                       Len(received'[c]) = Len(received[c]) + 1]_vars

\* A subscriber was notified of a mutateState before its replay, and the
\* replay passed the state that mutateState left.
C19_Witness ==
    \E c \in Callbacks :
        /\ Len(received[c]) = 2
        /\ received[c][1][1] = "notify"
        /\ received[c][2] = <<"replay", received[c][1][2]>>

\* C20: subscribe calls nothing, and a replay is delivered only when no unit
\* of work is in progress, to a callback whose subscribe call is over.
C20_ReplayDeferred ==
    [][/\ Len(microtasks') > Len(microtasks) => received' = received
       /\ \A c \in Callbacks :
             (/\ Len(received'[c]) > Len(received[c])
              /\ received'[c][Len(received'[c])][1] = "replay") =>
                 /\ ~busy
                 /\ cbSt[c] = "active"
                 /\ \E i \in 1..Len(microtasks) : microtasks[i][2] = c]_vars

\* The caller subscribed before the slice existed, created it in the same
\* unit of work, and the replay, the first call, passed it.
C20_Witness ==
    \E c \in Callbacks :
        /\ received[c] = <<<<"replay", <<0>>>>>>
        /\ ~busy
        /\ mutations = 0

----------------------------------------------------------------------------
(***************************************************************************)
(* Calling the function subscribe returned more than once.  One slice      *)
(* name is enough here; per callback the store's state is extended with    *)
(* whether the function was called again after its first call.             *)
(***************************************************************************)

\* Per callback: the function subscribe returned was called again.
again == stateManager.again

\* The slice name the callbacks subscribe to.
UnsubSlice == "A"

UnsubInit ==
    /\ AppIdle
    /\ pluginManager = Absent
    /\ stateManager = [state |-> [t \in Slices |-> NoSlice],
                       subscribers |-> [t \in Slices |-> <<>>],
                       cbSt |-> [c \in Callbacks |-> "never"],
                       microtasks |-> <<>>,
                       received |-> [c \in Callbacks |-> <<>>],
                       busy |-> FALSE,
                       mutations |-> 0,
                       lastMutate |-> NoMutate,
                       again |-> [c \in Callbacks |-> FALSE]]

\* The function subscribe returned is called once more: delete is applied
\* to the Set again.
UnsubscribeAgain(c) ==
    /\ UnitOpen
    /\ cbSt[c] = "removed"
    /\ stateManager' = [stateManager EXCEPT
                           !.subscribers =
                               [t \in Slices |-> Remove(subscribers[t], c)],
                           !.again[c] = TRUE,
                           !.busy = TRUE]
    /\ UNCHANGED <<appVars, pluginManager>>

UnsubNext ==
    \/ InitializeState(UnsubSlice)
    \/ MutateState(UnsubSlice)
    \/ \E c \in Callbacks : Subscribe(c, UnsubSlice)
    \/ \E c \in Callbacks : Unsubscribe(c)
    \/ \E c \in Callbacks : UnsubscribeAgain(c)
    \/ Yield
    \/ Tick

UnsubSpec == UnsubInit /\ [][UnsubNext]_vars

\* C21: once the function subscribe returned has been called, the callback
\* is in no Set and gets no further call, neither the notification of a
\* mutateState nor a replay that was still queued; calling the function
\* again changes nothing in the store.
C21_UnsubscribeIdempotent ==
    [][\A c \in Callbacks :
          /\ cbSt[c] = "removed" =>
                /\ received'[c] = received[c]
                /\ cbSt'[c] = "removed"
                /\ \A t \in Slices : ~InSeq(c, subscribers'[t])
          /\ cbSt'[c] = "removed" => \A t \in Slices : ~InSeq(c, subscribers'[t])
          /\ (again'[c] /\ ~again[c]) =>
                /\ state' = state
                /\ subscribers' = subscribers
                /\ cbSt' = cbSt
                /\ microtasks' = microtasks
                /\ received' = received
                /\ mutations' = mutations
                /\ lastMutate' = lastMutate]_vars

\* A callback unsubscribed with its replay still queued and unsubscribed
\* again; the replay has been dropped, and a mutateState that notified a
\* later subscriber did not call it.
C21_Witness ==
    \E c, d \in Callbacks :
        /\ c < d
        /\ cbSt[c] = "removed"
        /\ again[c]
        /\ received[c] = <<>>
        /\ microtasks = <<>>
        /\ \E i \in 1..Len(received[d]) : received[d][i][1] = "notify"

----------------------------------------------------------------------------
(***************************************************************************)
(* Model of subscribeAsync (src/StateManager.ts, lines 140-194): one       *)
(* sequence over one slice, its consumer, the callers of mutateState and   *)
(* the cancellation token.  The body of the generator runs inside the      *)
(* consumer's pull up to its next yield or await; the continuation of an   *)
(* await and the hand-over of a yielded element are queued jobs, like the  *)
(* replay of subscribe.  A slice is handed around by reference: what an    *)
(* element shows is the data of the slice when it is read.                 *)
(***************************************************************************)

\* Position of the generator: "none" (subscribeAsync not called), "created"
\* (called, never pulled), "yielding" (yield executed, hand-over queued),
\* "atYield" (the consumer holds the element), "awaiting" (inside the await
\* of line 178), "resuming" (that await resolved, continuation queued),
\* "done".
pc == stateManager.pc

\* latestItem: <<>> (null) or <<slice name>>, a reference to the slice.
latestItem == stateManager.latestItem

\* resolveNext is not null.
resolveNext == stateManager.resolveNext

\* isComplete
isComplete == stateManager.isComplete

\* abortHandler is a listener of the token.
listening == stateManager.listening

\* The elements yielded so far: per element the data the slice held when
\* the yield was executed.
elements == stateManager.elements

\* The type name handed to subscribeAsync.
AsyncType == "A"

\* The callback subscribeAsync hands to subscribe.
OnStateCb == "onState"

\* The state manager with one initialized slice and no sequence.
AsyncInit ==
    /\ AppIdle
    /\ pluginManager = Absent
    /\ stateManager = [state |-> [t \in Slices |->
                                     IF t = AsyncType THEN <<0>> ELSE NoSlice],
                       subscribers |-> [t \in Slices |-> <<>>],
                       microtasks |-> <<>>,
                       busy |-> FALSE,
                       mutations |-> 0,
                       pc |-> "none",
                       latestItem |-> <<>>,
                       resolveNext |-> FALSE,
                       isComplete |-> FALSE,
                       listening |-> FALSE,
                       elements |-> <<>>]

\* The supervisor's variables other than the token.
appRest == <<caps, phase, rejectedBy, startSt, loopSt, stopSt, runCalls,
             stopCalls, errLogs, exitLogs, lastOutcome, profile>>

\* Mutant: the items are queued.
Latest_Queue(buf, item) == Append(buf, item)

\* latestItem = state: one slot, the newer item replaces the older.
Latest(buf, item) == <<item>>

\* if (resolveNext) { resolveNext(); resolveNext = null; }: the await of the
\* generator resolves and its continuation is queued.
Wake(sm) ==
    IF sm.resolveNext
    THEN [sm EXCEPT !.resolveNext = FALSE,
                    !.pc = "resuming",
                    !.microtasks = Append(@, <<"resume", OnStateCb>>)]
    ELSE sm

\* Mutant: the callback fills the slot and wakes nobody.
OnState_NoWake(sm, t) == [sm EXCEPT !.latestItem = Latest(@, t)]

\* The callback of lines 166-172, called with the slice t.
OnState(sm, t) == Wake([sm EXCEPT !.latestItem = Latest(@, t)])

\* Mutant: the handler sets the flag and wakes nobody.
AbortHandler_NoWake(sm) == [sm EXCEPT !.isComplete = TRUE]

\* abortHandler, lines 155-161.
AbortHandler(sm) == Wake([sm EXCEPT !.isComplete = TRUE])

\* Mutant: the finally block leaves the callback subscribed.
Finally_StaysSubscribed(sm) == [sm EXCEPT !.listening = FALSE, !.pc = "done"]

\* The finally block: unsubscribe() and removeEventListener.
Finally(sm) ==
    [sm EXCEPT !.subscribers =
                   [t \in Slices |-> Remove(sm.subscribers[t], OnStateCb)],
               !.listening = FALSE,
               !.pc = "done"]

\* Lines 185-187: the item is taken, the slot is emptied, the item is
\* yielded; its hand-over to the consumer is queued.
YieldItem(sm) ==
    [sm EXCEPT !.elements = Append(@, sm.state[Head(sm.latestItem)]),
               !.latestItem = Tail(@),
               !.pc = "yielding",
               !.microtasks = Append(@, <<"deliver", OnStateCb>>)]

\* Lines 178-180: the generator waits for resolveNext to be called.
AwaitNext(sm) == [sm EXCEPT !.resolveNext = TRUE, !.pc = "awaiting"]

\* One turn of the loop from its head (line 175) to where the generator
\* stops next; ab is signal.aborted.
LoopTop(sm, ab) ==
    IF sm.isComplete \/ ab THEN Finally(sm)
    ELSE IF sm.latestItem = <<>> THEN AwaitNext(sm)
    ELSE YieldItem(sm)

\* The generator continues after the await (line 184).
AfterAwait(sm, ab) ==
    IF sm.latestItem # <<>> /\ ~ab THEN YieldItem(sm) ELSE LoopTop(sm, ab)

\* The first pull, lines 145-173: nothing if the token is signaled, else
\* the slot takes the current slice, the handler listens, the callback is
\* subscribed and its replay queued, and the loop is entered.
FirstPull(sm, ab) ==
    IF ab THEN [sm EXCEPT !.pc = "done"]
    ELSE LoopTop([sm EXCEPT
                     !.latestItem = <<AsyncType>>,
                     !.listening = TRUE,
                     !.subscribers[AsyncType] = Append(@, OnStateCb),
                     !.microtasks = Append(@, <<AsyncType, OnStateCb>>)],
                 ab)

\* subscribeAsync(Type, signal) is called: a generator object is made, no
\* line of its body runs.
SubscribeAsync ==
    /\ UnitOpen
    /\ pc = "none"
    /\ stateManager' = [stateManager EXCEPT !.pc = "created", !.busy = TRUE]
    /\ UNCHANGED <<appVars, pluginManager>>

\* The consumer asks for the next element: the generator runs, from its
\* start or from its last yield.
Pull ==
    /\ UnitOpen
    /\ pc \in {"created", "atYield"}
    /\ stateManager' =
          [(IF pc = "created" THEN FirstPull(stateManager, aborted)
                              ELSE LoopTop(stateManager, aborted))
             EXCEPT !.busy = TRUE]
    /\ UNCHANGED <<appVars, pluginManager>>

\* The consumer closes the sequence (return(), as break does): a generator
\* that never ran is done, one stopped at a yield runs its finally block.
AsyncReturn ==
    /\ UnitOpen
    /\ pc \in {"created", "atYield"}
    /\ stateManager' =
          [(IF pc = "created" THEN [stateManager EXCEPT !.pc = "done"]
                              ELSE Finally(stateManager))
             EXCEPT !.busy = TRUE]
    /\ UNCHANGED <<appVars, pluginManager>>

\* mutateState on the slice: the mutator runs, the subscribed callback is
\* called with the slice.
AsyncMutateState ==
    /\ UnitOpen
    /\ mutations < MaxMutations
    /\ LET n == mutations + 1
           sm == [stateManager EXCEPT !.mutations = n,
                                      !.state[AsyncType] = <<n>>,
                                      !.busy = TRUE]
       IN  stateManager' = IF StillSubscribed(AsyncType, OnStateCb)
                           THEN OnState(sm, AsyncType)
                           ELSE sm
    /\ UNCHANGED <<appVars, pluginManager>>

\* The token is signaled: its listeners are called.
AsyncAbort ==
    /\ UnitOpen
    /\ ~aborted
    /\ aborted' = TRUE
    /\ stateManager' =
          [(IF listening THEN AbortHandler(stateManager) ELSE stateManager)
             EXCEPT !.busy = TRUE]
    /\ UNCHANGED <<appRest, pluginManager>>

\* The oldest queued job runs: the replay of subscribe, the continuation of
\* the await, or the hand-over of a yielded element, with which the
\* consumer's next unit of work begins.
AsyncTick ==
    /\ TickRuns
    /\ LET job == Head(microtasks)
           sm == [stateManager EXCEPT !.microtasks = Tail(@)]
       IN  stateManager' =
              IF job[1] = "resume" THEN AfterAwait(sm, aborted)
              ELSE IF job[1] = "deliver"
                   THEN [sm EXCEPT !.pc = "atYield", !.busy = TRUE]
              ELSE IF StillSubscribed(job[1], job[2])
                   THEN OnState(sm, job[1])
              ELSE sm
    /\ UNCHANGED <<appVars, pluginManager>>

AsyncNext ==
    \/ SubscribeAsync
    \/ Pull
    \/ AsyncReturn
    \/ AsyncMutateState
    \/ AsyncAbort
    \/ Yield
    \/ AsyncTick

AsyncSpec == AsyncInit /\ [][AsyncNext]_vars

\* A unit of work ends and a queued job runs.
AsyncFair == WF_vars(Yield) /\ WF_vars(AsyncTick)

AsyncFairSpec == AsyncSpec /\ AsyncFair

\* The shape of the state of the sequence.
AsyncTypeOK ==
    /\ pc \in {"none", "created", "yielding", "atYield", "awaiting",
               "resuming", "done"}
    /\ Len(latestItem) <= 1
    /\ resolveNext = (pc = "awaiting")
    /\ listening = StillSubscribed(AsyncType, OnStateCb)
    /\ listening => pc \notin {"none", "created", "done"}

----------------------------------------------------------------------------
(***************************************************************************)
(* The sequence of subscribeAsync.                                         *)
(***************************************************************************)

\* C22: the first pull of a sequence whose token is not signaled yields the
\* current state, and every later element is yielded only after a
\* mutateState on the slice that came after the element before it: with
\* no mutateState in between there is no further element.
C22_ElementsFollowMutations ==
    /\ [][(pc = "created" /\ pc' = "yielding") =>
             elements' = <<state[AsyncType]>>]_vars
    /\ [](\A k \in 1..(Len(elements) - 1) :
             elements[k + 1][1] > elements[k][1])

\* The step executes a yield.
YieldStep == Len(elements') = Len(elements) + 1

\* C23: however many mutateState calls came since the element before it, a
\* pull yields one element, which shows the slice as the last of them left
\* it, and leaves nothing behind to be yielded for the earlier ones: the
\* slot is empty after the yield and never holds more than one item.
C23_LatestValueWins ==
    /\ [](Len(latestItem) <= 1)
    /\ [][/\ elements' # elements => YieldStep
          /\ YieldStep =>
                /\ elements' = Append(elements, state'[AsyncType])
                /\ state'[AsyncType] = <<mutations'>>
                /\ latestItem' = <<>>]_vars

\* Two mutateState calls came between two elements: the second element
\* shows the slice after the second of them, the state between them was
\* never an element.
C23_Witness ==
    \E k \in 1..(Len(elements) - 1) :
        /\ elements[k + 1][1] = elements[k][1] + 2
        /\ latestItem = <<>>

\* C24: a sequence first pulled with its token signaled ends at once with
\* no element; signaling the token while the consumer is blocked in a pull
\* wakes the generator, which then ends the sequence without an element,
\* so no pull stays blocked once the token is signaled; and no element is
\* yielded once the token is signaled.
C24_EndsOnCancellation ==
    /\ [][/\ (aborted /\ pc = "created" /\ pc' # "created") =>
                (pc' = "done" /\ elements' = <<>>)
          /\ (aborted' /\ ~aborted /\ pc = "awaiting") => pc' = "resuming"
          /\ (aborted /\ pc = "resuming" /\ pc' # "resuming") => pc' = "done"
          /\ aborted => elements' = elements]_vars
    /\ [](aborted => pc # "awaiting")
    /\ ((aborted /\ pc = "resuming") ~> (pc = "done"))

\* The token was signaled while the consumer was blocked in a pull with
\* nothing in the slot: the generator has been woken.
C24_Witness ==
    /\ aborted
    /\ pc = "resuming"
    /\ latestItem = <<>>
    /\ elements # <<>>

----------------------------------------------------------------------------
(***************************************************************************)
(* Model of waitForState and timedWaitForState (src/StateManager.ts, lines *)
(* 100-138): one call on one initialized slice, the callers of             *)
(* mutateState, the timer of timedWaitForState and the application's       *)
(* token.  A predicate is the set of the data it accepts.  The callback of *)
(* a timer runs as a unit of work of its own, when no unit of work is in   *)
(* progress and no job is queued.                                          *)
(***************************************************************************)

\* The call made: "none", "wait" (waitForState), "timed" (timedWaitForState).
waitKind == stateManager.waitKind

\* The predicate handed to the call: the data it accepts.
predicate == stateManager.predicate

\* The timer of timedWaitForState: "none" (not set), "armed", "cleared",
\* "fired".
timeout == stateManager.timeout

\* The calls of resolve and reject on the promise of the call, in order:
\* <<"resolve", state>> or <<"reject", <<>>>>.  The first settles it.
settles == stateManager.settles

\* The evaluations of the predicate, in order: <<where, state>>, where
\* being "call" (inside the call), "replay" or "notify".
evals == stateManager.evals

\* The type name handed to the call.
WaitType == "A"

\* The callback the call hands to subscribe.
WaiterCb == "waiter"

\* The data a slice can hold.
Data == 0..MaxMutations

\* The state manager with one initialized slice and no call made.
WaitInit ==
    /\ AppIdle
    /\ pluginManager = Absent
    /\ stateManager = [state |-> [t \in Slices |->
                                     IF t = WaitType THEN <<0>> ELSE NoSlice],
                       subscribers |-> [t \in Slices |-> <<>>],
                       microtasks |-> <<>>,
                       busy |-> FALSE,
                       mutations |-> 0,
                       waitKind |-> "none",
                       predicate |-> {},
                       timeout |-> "none",
                       settles |-> <<>>,
                       evals |-> <<>>]

\* predicate(state)
Holds(P, st) == st[1] \in P

\* Mutant: subscribe queues no replay.
QueueReplay_None(q, t, c) == q

\* queueMicrotask of lines 91-95.
QueueReplay(q, t, c) == Append(q, <<t, c>>)

\* this.subscribe(ClassType, callback) by the call: the callback joins the
\* Set and its replay is queued.
WaitSubscribe(sm) ==
    [sm EXCEPT !.subscribers[WaitType] = Append(@, WaiterCb),
               !.microtasks = QueueReplay(@, WaitType, WaiterCb)]

\* Mutant: the timer is left armed.
ClearTimeout_Forgotten(tm) == tm

\* clearTimeout(timeout)
ClearTimeout(tm) == IF tm = "armed" THEN "cleared" ELSE tm

\* Mutant: the callback stays subscribed.
WaitUnsubscribe_Nothing(sm) == sm

\* unsubscribe() of the call.
WaitUnsubscribe(sm) ==
    [sm EXCEPT !.subscribers =
                   [t \in Slices |-> Remove(sm.subscribers[t], WaiterCb)]]

\* The callback of lines 116-122 and 131-136, called with the slice (how:
\* "replay" or "notify"): when the predicate holds, the timer if any is
\* cleared, the callback is unsubscribed and the promise is resolved.
WaiterCallback(sm, how) ==
    LET st == sm.state[WaitType]
        seen == [sm EXCEPT !.evals = Append(@, <<how, st>>)]
    IN  IF Holds(sm.predicate, st)
        THEN [WaitUnsubscribe(seen) EXCEPT
                 !.timeout = IF sm.waitKind = "timed" THEN ClearTimeout(@) ELSE @,
                 !.settles = Append(@, <<"resolve", st>>)]
        ELSE seen

\* waitForState(Type, predicate): the callback is subscribed, nothing else.
WaitForState(P) ==
    /\ UnitOpen
    /\ waitKind = "none"
    /\ stateManager' = [WaitSubscribe(stateManager) EXCEPT
                           !.waitKind = "wait",
                           !.predicate = P,
                           !.busy = TRUE]
    /\ UNCHANGED <<appVars, pluginManager>>

\* timedWaitForState(Type, predicate, timeoutMs): the predicate is
\* evaluated on the current state; when it holds the call returns the
\* state, else the timer is set and the callback subscribed.
TimedWaitForState(P) ==
    /\ UnitOpen
    /\ waitKind = "none"
    /\ LET st == state[WaitType]
           sm == [stateManager EXCEPT !.waitKind = "timed",
                                      !.predicate = P,
                                      !.evals = Append(@, <<"call", st>>),
                                      !.busy = TRUE]
       IN  stateManager' =
              IF Holds(P, st)
              THEN [sm EXCEPT !.settles = Append(@, <<"resolve", st>>)]
              ELSE [WaitSubscribe(sm) EXCEPT !.timeout = "armed"]
    /\ UNCHANGED <<appVars, pluginManager>>

\* mutateState on the slice: the mutator runs, the subscribed callback is
\* called with the slice.
WaitMutateState ==
    /\ UnitOpen
    /\ mutations < MaxMutations
    /\ \E d \in Data :
          LET sm == [stateManager EXCEPT !.mutations = @ + 1,
                                         !.state[WaitType] = <<d>>,
                                         !.busy = TRUE]
          IN  stateManager' = IF StillSubscribed(WaitType, WaiterCb)
                              THEN WaiterCallback(sm, "notify")
                              ELSE sm
    /\ UNCHANGED <<appVars, pluginManager>>

\* The queued replay runs.
WaitTick ==
    /\ TickRuns
    /\ LET job == Head(microtasks)
           sm == [stateManager EXCEPT !.microtasks = Tail(@)]
       IN  stateManager' = IF StillSubscribed(job[1], job[2])
                           THEN WaiterCallback(sm, "replay")
                           ELSE sm
    /\ UNCHANGED <<appVars, pluginManager>>

\* The timer fires (lines 111-114): unsubscribe(), then reject.
TimeoutFire ==
    /\ ~busy
    /\ microtasks = <<>>
    /\ timeout = "armed"
    /\ stateManager' = [WaitUnsubscribe(stateManager) EXCEPT
                           !.timeout = "fired",
                           !.settles = Append(@, <<"reject", <<>>>>)]
    /\ UNCHANGED <<appVars, pluginManager>>

WaitNext ==
    \/ \E P \in SUBSET Data : WaitForState(P)
    \/ \E P \in SUBSET Data : TimedWaitForState(P)
    \/ WaitMutateState
    \/ WaitTick
    \/ TimeoutFire
    \/ Shutdown
    \/ Yield

WaitSpec == WaitInit /\ [][WaitNext]_vars

\* A unit of work ends, a queued job runs, a timer that stays armed fires.
WaitFair == WF_vars(Yield) /\ WF_vars(WaitTick) /\ WF_vars(TimeoutFire)

WaitFairSpec == WaitSpec /\ WaitFair

\* The shape of the state of the call.
WaitTypeOK ==
    /\ waitKind \in {"none", "wait", "timed"}
    /\ predicate \subseteq Data
    /\ timeout \in {"none", "armed", "cleared", "fired"}
    /\ waitKind = "wait" => timeout = "none"
    /\ state[WaitType] \in {<<d>> : d \in Data}

----------------------------------------------------------------------------
(***************************************************************************)
(* waitForState, timedWaitForState and the token.                          *)
(***************************************************************************)

\* The predicate accepted none of the first n states it was evaluated on.
NoneHeld(n) == \A i \in 1..n : ~Holds(predicate, evals[i][2])

\* C25: timedWaitForState evaluates the predicate inside the call; when it
\* holds the call resolves with the current state and sets no timer.
\* Otherwise the timer is set, every later mutateState is evaluated while
\* the call is pending, and the call resolves with the first state the
\* predicate accepts, clearing the timer, or is rejected when the timer
\* fires with no state accepted so far.  Resolve and reject are called once
\* between them, and one of them is called in the end.
C25_TimedWait ==
    /\ [](waitKind = "timed" =>
             /\ Len(settles) <= 1
             /\ evals # <<>> /\ evals[1][1] = "call"
             /\ IF Holds(predicate, evals[1][2])
                THEN /\ settles = <<<<"resolve", evals[1][2]>>>>
                     /\ timeout = "none"
                     /\ Len(evals) = 1
                ELSE /\ settles = <<>> =>
                           (timeout = "armed" /\ NoneHeld(Len(evals)))
                     /\ (settles # <<>> /\ settles[1][1] = "reject") =>
                           (timeout = "fired" /\ NoneHeld(Len(evals)))
                     /\ (settles # <<>> /\ settles[1][1] = "resolve") =>
                           /\ timeout = "cleared"
                           /\ settles[1][2] = evals[Len(evals)][2]
                           /\ Holds(predicate, settles[1][2])
                           /\ NoneHeld(Len(evals) - 1))
    /\ [][(waitKind = "timed" /\ settles = <<>> /\ mutations' # mutations) =>
             evals' = Append(evals, <<"notify", state'[WaitType]>>)]_vars
    /\ ((waitKind = "timed") ~> (Len(settles) = 1))

\* A timedWaitForState call whose predicate refused the current state, the
\* replay and a first mutation has resolved with the state a second
\* mutation left.
C25_Witness ==
    /\ waitKind = "timed"
    /\ Len(evals) = 4
    /\ settles = <<<<"resolve", state[WaitType]>>>>
    /\ timeout = "cleared"

\* C26: waitForState evaluates the predicate only in the replay of its
\* subscription and in the notifications of mutateState, on every one it
\* gets while pending and never inside the call; it resolves with the state
\* of the first of them the predicate accepts.  When the predicate accepts
\* the current state and no mutateState follows, the replay resolves it.
C26_WaitForState ==
    /\ [](waitKind = "wait" =>
             /\ \A i \in 1..Len(evals) : evals[i][1] \in {"replay", "notify"}
             /\ Len(settles) <= 1
             /\ settles = <<>> => NoneHeld(Len(evals))
             /\ settles # <<>> =>
                   /\ settles[1] = <<"resolve", evals[Len(evals)][2]>>
                   /\ Holds(predicate, settles[1][2])
                   /\ NoneHeld(Len(evals) - 1))
    /\ [][/\ (waitKind = "none" /\ waitKind' = "wait") =>
                (evals' = <<>> /\ settles' = <<>>)
          /\ (waitKind = "wait" /\ settles = <<>> /\ mutations' # mutations) =>
                evals' = Append(evals, <<"notify", state'[WaitType]>>)]_vars
    /\ \A m \in 0..MaxMutations :
          (/\ waitKind = "wait"
           /\ settles = <<>>
           /\ mutations = m
           /\ Holds(predicate, state[WaitType]))
             ~> (mutations # m \/ settles = <<<<"resolve", state[WaitType]>>>>)

\* A waitForState call made while the predicate accepted the current state
\* has resolved with it in the replay, without any mutateState.
C26_Witness ==
    /\ waitKind = "wait"
    /\ mutations = 0
    /\ evals = <<<<"replay", <<0>>>>>>
    /\ settles = <<<<"resolve", <<0>>>>>>

\* C27: once the application's token is signaled, a pending waitForState
\* call whose predicate has not held yet is unblocked: it does not stay
\* pending.
C27_WaitObservesToken ==
    (aborted /\ waitKind = "wait" /\ settles = <<>>) ~> (settles # <<>>)

----------------------------------------------------------------------------
(***************************************************************************)
(* Model of serialize and deserialize (src/StateManager.ts, lines 57-75):  *)
(* a store, the mapping its serialize() returns, and a second store that   *)
(* initializeState has seeded, to which the mapping is fed.  A slice       *)
(* serializes as the slices of the repository's tests do: its data goes    *)
(* into an object under the key "data", and deserialize takes it from      *)
(* there.                                                                  *)
(***************************************************************************)

\* The slices of the second store, per type name.
restored == stateManager.restored

\* The slices of the second store as initializeState seeded them.
seeded == stateManager.seeded

\* <<>>, or <<mapping>>: what serialize() of the first store returned.
snapshot == stateManager.snapshot

\* The keys onMissing was called with, in order.
missing == stateManager.missing

\* deserialize was called on the second store.
fed == stateManager.fed

\* <<>>, or what deserialize was called with: <<mapping, whether onMissing
\* was handed over>>.
fedWith == stateManager.fedWith

\* The stores a type name to slice Map can be.
Stores == [Slices -> {NoSlice} \cup {<<d>> : d \in Data}]

\* The type names of the slices of a store.
Names(st) == {t \in Slices : st[t] # NoSlice}

\* The keys of a mapping in the order for-in visits them.
KeyOrder == <<"A", "B">>

SerializeInit ==
    /\ AppIdle
    /\ pluginManager = Absent
    /\ \E st \in Stores, fresh \in Stores :
          stateManager = [state |-> st,
                          restored |-> fresh,
                          seeded |-> fresh,
                          snapshot |-> <<>>,
                          missing |-> <<>>,
                          fed |-> FALSE,
                          fedWith |-> <<>>]

\* slice.serialize(): { data: this.data }
SliceSerialize(slice) == <<"data", slice[1]>>

\* slice.deserialize(data): this.data = data.data
SliceDeserialize(slice, plain) == <<plain[2]>>

\* serialize(): one entry per slice of the Map, under its key.
SerializeStore(st) == [t \in Names(st) |-> SliceSerialize(st[t])]

\* Mutant: the slices are left as they were seeded.
DeserializeInto_Nothing(st, data) == st

\* The slices of a store after deserialize(data): each slice named by a key
\* of the mapping has taken that key's value.
DeserializeInto(st, data) ==
    [t \in Slices |-> IF t \in DOMAIN data /\ st[t] # NoSlice
                      THEN SliceDeserialize(st[t], data[t])
                      ELSE st[t]]

\* Mutant: every key of the mapping is reported.
MissingKeys_All(st, data) == SelectSeq(KeyOrder, LAMBDA k : k \in DOMAIN data)

\* The keys of the mapping that name no slice of the store, in order.
MissingKeys(st, data) ==
    SelectSeq(KeyOrder, LAMBDA k : k \in DOMAIN data /\ st[k] = NoSlice)

\* serialize() is called on the first store.
SerializeCall ==
    /\ snapshot = <<>>
    /\ stateManager' = [stateManager EXCEPT
                           !.snapshot = <<SerializeStore(state)>>]
    /\ UNCHANGED <<appVars, pluginManager>>

\* deserialize(mapping, onMissing) is called on the second store with what
\* serialize() returned, with or without onMissing.
DeserializeCall(withOnMissing) ==
    /\ snapshot # <<>>
    /\ ~fed
    /\ stateManager' = [stateManager EXCEPT
                           !.restored = DeserializeInto(@, snapshot[1]),
                           !.missing = IF withOnMissing
                                       THEN MissingKeys(restored, snapshot[1])
                                       ELSE <<>>,
                           !.fed = TRUE,
                           !.fedWith = <<snapshot[1], withOnMissing>>]
    /\ UNCHANGED <<appVars, pluginManager>>

\* The plain values a slice's serialize() can return.
Plain == {SliceSerialize(<<d>>) : d \in Data}

\* The mappings deserialize can be handed: plain values under some keys.
Mappings == UNION {[K -> Plain] : K \in SUBSET Slices}

\* deserialize(data, onMissing) is called on the second store with any
\* mapping, with or without onMissing.
DeserializeMapping(data, withOnMissing) ==
    /\ ~fed
    /\ stateManager' = [stateManager EXCEPT
                           !.restored = DeserializeInto(@, data),
                           !.missing = IF withOnMissing
                                       THEN MissingKeys(restored, data)
                                       ELSE <<>>,
                           !.fed = TRUE,
                           !.fedWith = <<data, withOnMissing>>]
    /\ UNCHANGED <<appVars, pluginManager>>

\* initializeState on the first store, before serialize(): a slice with
\* data d is stored under the name.
SerializeSeed(t, d) ==
    /\ snapshot = <<>>
    /\ stateManager' = [stateManager EXCEPT !.state[t] = <<d>>]
    /\ UNCHANGED <<appVars, pluginManager>>

SerializeNext ==
    \/ \E t \in Slices, d \in Data : SerializeSeed(t, d)
    \/ SerializeCall
    \/ \E b \in BOOLEAN : DeserializeCall(b)
    \/ \E data \in Mappings, b \in BOOLEAN : DeserializeMapping(data, b)

SerializeSpec == SerializeInit /\ [][SerializeNext]_vars

\* C28: when the mapping serialize() returned for a store is fed to
\* deserialize on a store seeded with the same type names, every slice of
\* the second store serializes to what the slice of that name in the first
\* store serialized to, and onMissing is not called.
C28_RoundTrip ==
    [][(/\ ~fed /\ fed'
        /\ snapshot # <<>>
        /\ fedWith'[1] = snapshot[1]
        /\ Names(restored) = Names(state)) =>
          /\ SerializeStore(restored') = snapshot[1]
          /\ SerializeStore(restored') = SerializeStore(state)
          /\ Names(restored') = Names(restored)
          /\ missing' = <<>>]_vars

\* Two stores with the same two type names and different data everywhere:
\* after the round trip the second holds the data of the first.
C28_Witness ==
    /\ fed
    /\ snapshot # <<>>
    /\ fedWith[1] = snapshot[1]
    /\ Names(state) = Slices
    /\ state["A"] # state["B"]
    /\ \A t \in Slices : seeded[t] \notin {NoSlice, state[t]}
    /\ restored = state
    /\ missing = <<>>

----------------------------------------------------------------------------
(***************************************************************************)
(* Model of the slice instances of a store (src/StateManager.ts, lines     *)
(* 22-51): initializeState constructs an instance and sets it under the    *)
(* type name, also when the name has one; mutateState hands the instance   *)
(* of the name to the mutator, getState returns it.  Here the Map holds    *)
(* references, <<i>> for instance i, and the data of the instances is kept *)
(* apart; the calls subscribers get pass the reference.                    *)
(***************************************************************************)

\* Per instance its data: 0 as constructed, n as left by the n-th mutator.
heap == stateManager.heap

\* Number of instances constructed so far.
created == stateManager.created

\* Per instance, what the constructor or the latest mutator that was handed
\* it left in it.
left == stateManager.left

\* The latest getState call: <<type name, reference returned, data read
\* through it>>, or <<>>.
lastGet == stateManager.lastGet

Instances == 1..MaxInstances

\* A new store, no slice constructed.
InstanceInit ==
    /\ AppIdle
    /\ pluginManager = Absent
    /\ stateManager = [state |-> [t \in Slices |-> NoSlice],
                       subscribers |-> [t \in Slices |-> <<>>],
                       cbSt |-> [c \in Callbacks |-> "never"],
                       microtasks |-> <<>>,
                       received |-> [c \in Callbacks |-> <<>>],
                       busy |-> FALSE,
                       mutations |-> 0,
                       heap |-> [i \in Instances |-> 0],
                       created |-> 0,
                       left |-> [i \in Instances |-> 0],
                       lastGet |-> <<>>]

\* Mutant: an entry that exists is kept.
MapSet_KeepFirst(old, new) == IF old = NoSlice THEN new ELSE old

\* this.state.set(name, instance): the entry of the name after the call.
MapSet(old, new) == new

\* initializeState(Type, props): a new instance is constructed and set
\* under the type name.  No subscriber is called.
InitializeInstance(t) ==
    /\ UnitOpen
    /\ created < MaxInstances
    /\ LET i == created + 1
       IN  stateManager' = [stateManager EXCEPT
                               !.created = i,
                               !.heap[i] = 0,
                               !.left[i] = 0,
                               !.state[t] = MapSet(@, <<i>>),
                               !.busy = TRUE]
    /\ UNCHANGED <<appVars, pluginManager>>

\* Mutant: the mutator works on a copy of the instance.
Mutated_Copy(h, i, d) == h

\* The mutator changes the instance it is handed, in place.
Mutated(h, i, d) == [h EXCEPT ![i] = d]

\* mutateState(Type, callback) on a type name with an instance: the
\* mutator is handed the instance, then the subscribers of the name are
\* called with it.
MutateInstance(t) ==
    /\ UnitOpen
    /\ state[t] # NoSlice
    /\ mutations < MaxMutations
    /\ LET n == mutations + 1
           i == state[t][1]
       IN  stateManager' = [stateManager EXCEPT
                               !.mutations = n,
                               !.heap = Mutated(@, i, n),
                               !.left[i] = n,
                               !.received =
                                   [c \in Callbacks |->
                                       IF InSeq(c, Listeners(t))
                                       THEN Append(received[c], <<"notify", state[t]>>)
                                       ELSE received[c]],
                               !.busy = TRUE]
    /\ UNCHANGED <<appVars, pluginManager>>

\* getState(Type) on a type name with an instance: the instance is
\* returned, and the caller reads its data.
GetState(t) ==
    /\ UnitOpen
    /\ state[t] # NoSlice
    /\ stateManager' = [stateManager EXCEPT
                           !.lastGet = <<t, state[t], <<heap[state[t][1]]>>>>,
                           !.busy = TRUE]
    /\ UNCHANGED <<appVars, pluginManager>>

InstanceNext ==
    \/ \E t \in Slices : InitializeInstance(t)
    \/ \E t \in Slices : MutateInstance(t)
    \/ \E t \in Slices : GetState(t)
    \/ \E c \in Callbacks : Subscribe(c, "A")
    \/ Yield
    \/ Tick

InstanceSpec == InstanceInit /\ [][InstanceNext]_vars

\* The step is a getState call.
GetStep == lastGet' # lastGet

\* C29: whatever initializeState, mutateState and getState calls came
\* before, getState returns the instance held under the type name, and the
\* data read through it is what the latest mutator handed that instance
\* left, or what the constructor left if there was none.
C29_NoStaleRead ==
    [][GetStep =>
          LET t == lastGet'[1] IN
          /\ lastGet'[2] = state[t]
          /\ lastGet'[3] = <<left[state[t][1]]>>]_vars

\* getState after two mutateState calls on a slice returned the data the
\* second one left.
C29_Witness ==
    /\ lastGet # <<>>
    /\ mutations = 2
    /\ lastGet[3] = <<2>>
    /\ left[lastGet[2][1]] = 2
    /\ \E t \in Slices : t # lastGet[1] /\ state[t] # NoSlice

\* The step is an initializeState call.
InitStep == created' = created + 1

\* C30: a type name holds no instance or one, and no instance is held
\* under two names.  initializeState sets the instance it constructs under
\* its type name in place of the one the name had, leaves the other names
\* alone, calls no subscriber and queues nothing; getState returns the
\* instance the name holds at the call.
C30_OneInstancePerName ==
    /\ [](\A t \in Slices :
             /\ Len(state[t]) <= 1
             /\ \A u \in Slices : (state[t] # NoSlice /\ state[t] = state[u]) => t = u)
    /\ [][/\ InitStep =>
                /\ \E t \in Slices :
                      /\ state'[t] = <<created'>>
                      /\ state'[t] # state[t]
                      /\ \A u \in Slices \ {t} : state'[u] = state[u]
                /\ received' = received
                /\ microtasks' = microtasks
          /\ GetStep => lastGet'[2] = state'[lastGet'[1]]]_vars

\* A type name whose first instance was mutated, with a subscriber
\* notified, was initialized again: getState returned the second instance,
\* as constructed, and the subscriber's latest call is still the one that
\* passed the first.
C30_Witness ==
    /\ state["A"] = <<2>>
    /\ state["B"] = NoSlice
    /\ lastGet = <<"A", <<2>>, <<0>>>>
    /\ \E c \in Callbacks :
          /\ received[c] # <<>>
          /\ received[c][Len(received[c])] = <<"notify", <<1>>>>

----------------------------------------------------------------------------
(***************************************************************************)
(* getState and mutateState on a type name that holds no instance          *)
(* (src/StateManager.ts, lines 36-38 and 47-49).  The store's state is     *)
(* extended with the latest call that threw.                               *)
(***************************************************************************)

\* The latest call that threw "State slice ... not found": <<>> or
\* <<method, type name>>.
notFound == stateManager.notFound

NotFoundInit ==
    /\ AppIdle
    /\ pluginManager = Absent
    /\ stateManager = [state |-> [t \in Slices |-> NoSlice],
                       subscribers |-> [t \in Slices |-> <<>>],
                       cbSt |-> [c \in Callbacks |-> "never"],
                       microtasks |-> <<>>,
                       received |-> [c \in Callbacks |-> <<>>],
                       busy |-> FALSE,
                       mutations |-> 0,
                       heap |-> [i \in Instances |-> 0],
                       created |-> 0,
                       left |-> [i \in Instances |-> 0],
                       lastGet |-> <<>>,
                       notFound |-> <<>>]

\* Mutant: the subscribers of the name are called before the throw.
Throw_AfterNotify(sm, method, t) ==
    [sm EXCEPT !.notFound = <<method, t>>,
               !.received = [c \in Callbacks |->
                                IF InSeq(c, sm.subscribers[t])
                                THEN Append(@[c], <<"notify", NoSlice>>)
                                ELSE @[c]]]

\* throw new Error(`State slice ${ClassType.name} not found`): the call
\* ends there.
Throw(sm, method, t) == [sm EXCEPT !.notFound = <<method, t>>]

\* getState(Type) on a type name without an instance.
GetStateMissing(t) ==
    /\ UnitOpen
    /\ state[t] = NoSlice
    /\ stateManager' = [Throw(stateManager, "getState", t) EXCEPT !.busy = TRUE]
    /\ UNCHANGED <<appVars, pluginManager>>

\* mutateState(Type, callback) on a type name without an instance.
MutateStateMissing(t) ==
    /\ UnitOpen
    /\ state[t] = NoSlice
    /\ stateManager' = [Throw(stateManager, "mutateState", t) EXCEPT !.busy = TRUE]
    /\ UNCHANGED <<appVars, pluginManager>>

NotFoundNext ==
    \/ \E t \in Slices : InitializeInstance(t)
    \/ \E t \in Slices : MutateInstance(t)
    \/ \E t \in Slices : GetStateMissing(t)
    \/ \E t \in Slices : MutateStateMissing(t)
    \/ \E c \in Callbacks : Subscribe(c, "A")
    \/ Yield
    \/ Tick

NotFoundSpec == NotFoundInit /\ [][NotFoundNext]_vars

\* C31: a getState or mutateState call on a type name that holds no
\* instance throws the not-found error and leaves the store as it was: no
\* mutator has run, no subscriber was called, nothing was queued.  A
\* mutator runs only on a type name that holds an instance.
C31_NotFound ==
    [][/\ notFound' # notFound =>
             /\ state[notFound'[2]] = NoSlice
             /\ state' = state
             /\ heap' = heap
             /\ left' = left
             /\ mutations' = mutations
             /\ received' = received
             /\ subscribers' = subscribers
             /\ microtasks' = microtasks
             /\ lastGet' = lastGet
       /\ mutations' # mutations =>
             (/\ notFound' = notFound
              /\ \E t \in Slices : /\ state[t] # NoSlice
                                   /\ heap'[state[t][1]] = mutations')
       /\ lastGet' = lastGet]_vars

\* mutateState has thrown on a type name that has a subscriber and no
\* instance; the subscriber got no call.
C31_Witness ==
    /\ notFound = <<"mutateState", "A">>
    /\ state["A"] = NoSlice
    /\ \E c \in Callbacks : InSeq(c, subscribers["A"]) /\ received[c] = <<>>
    /\ microtasks = <<>>

----------------------------------------------------------------------------
(***************************************************************************)
(* deserialize with any mapping.                                           *)
(***************************************************************************)

\* The number of times key k occurs in the sequence q.
Count(q, k) == Cardinality({i \in 1..Len(q) : q[i] = k})

\* C32: deserialize(mapping, onMissing) leaves the set of type names of the
\* store as it was; every slice named by a key of the mapping has taken
\* that key's value through its own deserialize, every other slice is as
\* it was; onMissing, when handed over, is called once for every key of the
\* mapping that names no slice and for no other key.
C32_DeserializeFrame ==
    [][(~fed /\ fed') =>
          LET data == fedWith'[1]
              withOnMissing == fedWith'[2]
          IN  /\ Names(restored') = Names(restored)
              /\ \A t \in Slices :
                    /\ restored'[t] =
                          IF t \in DOMAIN data /\ restored[t] # NoSlice
                          THEN SliceDeserialize(restored[t], data[t])
                          ELSE restored[t]
                    /\ Count(missing', t) =
                          IF withOnMissing /\ t \in DOMAIN data /\ restored[t] = NoSlice
                          THEN 1 ELSE 0
              /\ state' = state]_vars

\* A store with one slice was fed a mapping with two keys and onMissing:
\* the slice took its key's value, the other key was reported, no slice
\* was added.
C32_Witness ==
    /\ fed
    /\ DOMAIN fedWith[1] = Slices
    /\ fedWith[2]
    /\ missing = <<"B">>
    /\ restored["B"] = NoSlice
    /\ restored["A"] = <<fedWith[1]["A"][2]>>
    /\ seeded["A"] # restored["A"]

----------------------------------------------------------------------------
(***************************************************************************)
(* The plugin manager: a failing start and the rest of the batch.          *)
(***************************************************************************)

\* C33: when the start of plugin k fails, by throwing or by rejecting the
\* promise it returned, no start was invoked for a plugin after k in the
\* batch, and the plugins after k are registered.
C33_StartFailureAborts ==
    \A k \in Plugins :
        plugStartSt[k] \in {"threw", "failed"} =>
            \A j \in Plugins :
                j > k => (~StartInvoked(j) /\ InRegistry(j))

----------------------------------------------------------------------------
(***************************************************************************)
(* timedWaitForState: what is left behind once it has settled.             *)
(***************************************************************************)

\* C34: once a timedWaitForState call has settled, by resolving or by its
\* timer, its callback is subscribed nowhere and its timer is not armed;
\* from then on the predicate is not evaluated, neither by a mutateState
\* nor by the replay, and neither resolve nor reject is called again.
C34_TimedWaitCleanup ==
    /\ []((waitKind = "timed" /\ settles # <<>>) =>
             /\ Len(settles) = 1
             /\ ~StillSubscribed(WaitType, WaiterCb)
             /\ timeout # "armed")
    /\ [][(waitKind = "timed" /\ settles # <<>>) =>
             /\ evals' = evals
             /\ settles' = settles
             /\ timeout' = timeout]_vars

\* The timer has rejected the call, and a mutateState made afterwards left
\* a state the predicate accepts: the call stays rejected.
C34_Witness ==
    /\ waitKind = "timed"
    /\ settles = <<<<"reject", <<>>>>>>
    /\ timeout = "fired"
    /\ Holds(predicate, state[WaitType])
    /\ mutations > 0

----------------------------------------------------------------------------
(***************************************************************************)
(* The supervisor: a failing start.                                        *)
(***************************************************************************)

----------------------------------------------------------------------------
(***************************************************************************)
(* reconfigurePlugins called twice with the same newConfig.  The plugin    *)
(* manager's state is extended with how the first call went; the counters  *)
(* of the call in progress start again with the second.                    *)
(***************************************************************************)

\* <<>>, or <<how the first call ended, its restartRequired, the
\* reconfigure calls it made per plugin>>.
firstCall == pluginManager.firstCall

\* The record r with one more field, firstCall.
WithFirstCall(r) ==
    [f \in DOMAIN r \cup {"firstCall"} |-> IF f = "firstCall" THEN <<>> ELSE r[f]]

ReconfigureTwiceInit ==
    /\ AppIdle
    /\ stateManager = Absent
    /\ \E hc \in [Registered -> BOOLEAN], hr \in [Registered -> BOOLEAN],
          ac \in [Registered -> {<<"a", 0>>, <<"bad", 0>>}] :
          pluginManager =
             WithFirstCall(
                [NewPluginManager(Registered, hc, hr, ac) EXCEPT
                    !.registry = [i \in Registered |-> i],
                    !.ipc = "resolved",
                    !.idx = RegLen + 1,
                    !.installSt = [p \in Registered |->
                                     IF hc[p] /\ ParseFails(ac[p])
                                     THEN "skipped" ELSE "ok"],
                    !.startSt = [p \in Registered |-> "skipped"]])

\* reconfigurePlugins(newConfig) is called again, with the newConfig of the
\* first call, once that call is over.
ReconfigureAgain ==
    /\ rpc \in {"resolved", "rejected"}
    /\ firstCall = <<>>
    /\ pluginManager' = [pluginManager EXCEPT
                            !.firstCall = <<rpc, restartRequired, reconfCalls>>,
                            !.rpc = "loop",
                            !.ridx = 1,
                            !.restartRequired = FALSE,
                            !.reconfCalls = [p \in Registered |-> 0],
                            !.rerr = NoError]
    /\ UNCHANGED <<appVars, stateManager>>

ReconfigureTwiceNext ==
    \/ ReconfigureNext
    \/ ReconfigureAgain

ReconfigureTwiceSpec == ReconfigureTwiceInit /\ [][ReconfigureTwiceNext]_vars

\* C36: no step of reconfigurePlugins changes the application's
\* configuration; when a call that returned is followed by a second call
\* with the same newConfig that returns, the second call has invoked
\* reconfigure on the same plugins and returns the same restartRequired.
C36_SecondCallSame ==
    /\ [][appConfig' = appConfig]_vars
    /\ []((firstCall # <<>> /\ firstCall[1] = "resolved" /\ rpc = "resolved") =>
             /\ restartRequired = firstCall[2]
             /\ reconfCalls = firstCall[3])

\* Two calls have returned, each after one reconfigure and each with
\* restartRequired = true.
C36_Witness ==
    /\ firstCall # <<>>
    /\ firstCall[1] = "resolved"
    /\ rpc = "resolved"
    /\ restartRequired
    /\ \E p \in Registered : reconfCalls[p] = 1

----------------------------------------------------------------------------
(***************************************************************************)
(* subscribeAsync: wake-ups and what a finished sequence leaves behind.    *)
(***************************************************************************)

\* The latest element yielded.
LastElement == elements[Len(elements)]

\* C37: while the token is not signaled, a mutateState made after an
\* element was yielded is never lost: the slot holds the slice until the
\* next yield, a consumer blocked in a pull is woken by it, a pull made
\* with the slot filled yields at once, and the woken generator goes on to
\* yield an element that shows the slice as that mutateState or a later one
\* left it.
C37_NoLostWakeup ==
    /\ []((/\ ~aborted
           /\ pc \in {"yielding", "atYield", "awaiting", "resuming"}
           /\ elements # <<>>
           /\ state[AsyncType] # LastElement) =>
             (latestItem # <<>> /\ pc # "awaiting"))
    /\ [][/\ (pc = "awaiting" /\ mutations' # mutations) => pc' = "resuming"
          /\ (pc = "atYield" /\ ~aborted /\ latestItem # <<>>) => pc' # "awaiting"
          /\ (pc = "resuming" /\ ~aborted /\ pc' # "resuming") =>
                (YieldStep /\ elements'[Len(elements')] = state[AsyncType])]_vars
    /\ \A m \in 1..MaxMutations :
          (pc = "resuming" /\ ~aborted /\ mutations = m)
             ~> (aborted \/ (elements # <<>> /\ LastElement[1] >= m /\ pc # "resuming"))

\* A mutateState has woken a consumer that was blocked in a pull.
C37_Witness ==
    /\ pc = "resuming"
    /\ ~aborted
    /\ latestItem # <<>>
    /\ mutations > 0
    /\ state[AsyncType] # LastElement

\* C38: a sequence that is done, because its loop ended after the token was
\* signaled or because the consumer closed it, has its callback subscribed
\* nowhere and its handler off the token; from then on no mutateState and
\* no replay reaches its slot, and it yields nothing.  A sequence that was
\* never pulled has subscribed nothing and queued nothing.
C38_SequenceCleanup ==
    /\ [](pc = "done" =>
             /\ ~StillSubscribed(AsyncType, OnStateCb)
             /\ ~listening)
    /\ [](pc \in {"none", "created"} =>
             /\ ~StillSubscribed(AsyncType, OnStateCb)
             /\ ~listening
             /\ microtasks = <<>>)
    /\ [][pc = "done" =>
             /\ pc' = "done"
             /\ latestItem' = latestItem
             /\ elements' = elements
             /\ subscribers' = subscribers]_vars

\* A sequence that yielded is done, and a mutateState made afterwards has
\* not reached its slot.
C38_Witness ==
    /\ pc = "done"
    /\ elements # <<>>
    /\ latestItem = <<>>
    /\ state[AsyncType] # LastElement

------
(***************************************************************************)
(* mutateState: a subscriber that throws.                                  *)
(***************************************************************************)

\* The step is a mutateState call that a subscriber's exception ends.
MutateThrows ==
    /\ mutations' = mutations + 1
    /\ lastMutate'.outcome = "threw"

\* C39: when a subscriber throws while mutateState notifies, the call
\* throws to its caller and returns nothing, the subscribers of the slice
\* up to the one that threw have been called with the mutated slice and
\* those subscribed after it have not been called, and the slice keeps the
\* change the mutator made.
C39_SubscriberThrows ==
    [][MutateThrows =>
          LET t == lastMutate'.slice
              k == lastMutate'.thrower
          IN  /\ k \in 1..Len(subscribers[t])
              /\ lastMutate'.result = <<>>
              /\ state'[t] = <<mutations'>>
              /\ state'[t] # state[t]
              /\ subscribers' = subscribers
              /\ \A i \in 1..Len(subscribers[t]) :
                    LET c == subscribers[t][i] IN
                    received'[c] = IF i <= k
                                   THEN Append(received[c], <<"notify", state'[t]>>)
                                   ELSE received[c]
              /\ \A c \in Callbacks :
                    ~InSeq(c, subscribers[t]) => received'[c] = received[c]]_vars

\* The first of two subscribers of a slice has thrown: the slice holds the
\* mutation and the second subscriber has no call for it.
C39_Witness ==
    /\ lastMutate.outcome = "threw"
    /\ lastMutate.thrower = 1
    /\ Len(subscribers[lastMutate.slice]) = 2
    /\ state[lastMutate.slice] = <<mutations>>
    /\ LET c == subscribers[lastMutate.slice][2] IN
       \A i \in 1..Len(received[c]) : received[c][i] # <<"notify", <<mutations>>>>

------
(***************************************************************************)
(* The supervisor and a registry that grows: addServices may be called at  *)
(* any time, before run() and while it is in progress.  Services are       *)
(* numbered in the order of their registration.                            *)
(***************************************************************************)

\* The state after construction and some addServices calls: the first
\* services are registered, nothing has run.
RegistryInit ==
    /\ \E k \in 0..NumServices :
          /\ hasRun \in [1..k -> BOOLEAN]
          /\ hasStop \in [1..k -> BOOLEAN]
    /\ aborted = FALSE
    /\ phase = "idle"
    /\ rejectedBy = NoError
    /\ startSt = [s \in Services |-> "idle"]
    /\ loopSt = [s \in Services |-> "idle"]
    /\ stopSt = [s \in Services |-> "idle"]
    /\ runCalls = [s \in Services |-> 0]
    /\ stopCalls = [s \in Services |-> 0]
    /\ errLogs = [s \in Services |-> 0]
    /\ exitLogs = [s \in Services |-> 0]
    /\ lastOutcome = [s \in Services |-> "none"]
    /\ profile = [s \in Services |-> "none"]
    /\ pluginManager = Absent
    /\ stateManager = Absent

\* addServices(service): the service joins the registry; no hook of it is
\* invoked.
AddServices ==
    /\ Cardinality(GetItems) < NumServices
    /\ LET s == Cardinality(GetItems) + 1 IN
       \E r, p \in BOOLEAN :
          /\ hasRun' = [t \in GetItems \cup {s} |-> IF t = s THEN r ELSE hasRun[t]]
          /\ hasStop' = [t \in GetItems \cup {s} |-> IF t = s THEN p ELSE hasStop[t]]
    /\ UNCHANGED <<other, aborted, phase, rejectedBy, startSt, loopSt, stopSt,
                   runCalls, stopCalls, errLogs, exitLogs, lastOutcome, profile>>

\* The supervisor with addServices; every run loop is followed through its
\* first invocation of run and then waits in its backoff for the signal.
RegistryNext ==
    \/ AddServices
    \/ Shutdown
    \/ RunCall
    \/ \E s \in Services : StartReturn(s)
    \/ \E s \in Services : StartFail(s)
    \/ EnterLoops
    \/ \E s \in Services : RunReturn(s)
    \/ \E s \in Services : RunThrow(s)
    \/ \E s \in Services : BackoffAbort(s)
    \/ EnterStop
    \/ \E s \in Services : StopReturn(s)
    \/ \E s \in Services : StopFail(s)
    \/ Finish

RegistrySpec == RegistryInit /\ [][RegistryNext]_vars

====
